---- MODULE Spec2Model ----
(***************************************************************************)
(* Sentiment ingestion pipeline and dedup-aware store.                     *)
(*                                                                         *)
(* backend: SentimentService over one MongoDB collection                   *)
(*          (src/backend/app/services/sentiment_service.py)                *)
(* worker : SentimentAnalyzer, APIClient, Pipeline                         *)
(*          (src/worker/analyzer, src/worker/storage, src/worker/pipeline) *)
(*                                                                         *)
(* Optional[str] values are sequences: <<>> is None, <<s>> is the string s.*)
(* Texts are sequences of one-character strings.  Scores are hundredths.   *)
(***************************************************************************)
EXTENDS Integers, Sequences, FiniteSets, TLC

VARIABLES
    collection,   \* the "sentiments" collection: documents in insertion order
    now,          \* the clock read by datetime.now(timezone.utc)
    req,          \* per client: the SentimentService call it has in flight
    classifier,   \* the Hugging Face pipeline: text -> [label, score]
    an,           \* the SentimentAnalyzer calls made and what they returned
    pl,           \* the Pipeline object
    http,         \* the httpx clients the worker has opened, in order
    run,          \* the Pipeline.run call in flight
    log,          \* requests the worker has sent and calls it has made
    main,         \* the worker's main(): where it stands and its exit status
    ft,           \* the fetch() or health_check() call in flight on a fetcher
    q             \* the read request in flight on the backend

store    == <<collection, now, req>>
analyzer == <<classifier, an>>
worker   == <<pl, http, run, log, main, ft>>
vars     == <<store, analyzer, worker, q>>

(***************************************************************************)
(* Bounds of the model.                                                    *)
(***************************************************************************)
MaxStore == 4     \* documents the collection may hold
MaxBatch == 2     \* candidates in one create_batch call
MaxRace  == 3     \* documents the collection may hold under concurrent clients
MaxTexts == 2     \* texts in one analyze_batch call
MaxCalls == 2     \* initialize() and run() calls on the pipeline
MaxClose == 2     \* close() calls on the pipeline
MaxPipe  == 5     \* documents the collection may hold while the pipeline runs
MaxDocs  == 3     \* documents the collection may hold while reads are served

Clients == {"c1", "c2"}     \* callers of the backend other than the worker
Worker  == "worker"         \* the worker's APIClient as a caller of the backend
Callers == Clients \cup {Worker}

Min(a, b) == IF a < b THEN a ELSE b

None == <<>>
Some(s) == <<s>>

\* variant: only None is falsy, the empty string counts as an id
TruthyNotNone(opt) == opt # <<>>

\* Python truthiness of an Optional[str]: None and "" are falsy.
Truthy(opt) == opt # None /\ opt[1] # ""

(***************************************************************************)
(* SentimentCreate values.                                                 *)
(***************************************************************************)
SentimentCreate(text, sentiment, score, source, source_id) ==
    [text |-> text, sentiment |-> sentiment, score |-> score,
     source |-> source, source_id |-> source_id]

CandTw1   == SentimentCreate(<<"g","o","o","d">>, "positive", 90, "twitter", Some("1"))
CandRd1   == SentimentCreate(<<"b","a","d">>, "negative", 80, "reddit", Some("1"))
CandNone  == SentimentCreate(<<"m","e","h">>, "neutral", 55, "twitter", None)
CandEmpty == SentimentCreate(<<"o","k">>, "positive", 70, "reddit", Some(""))

FullPool  == {CandTw1, CandRd1, CandNone, CandEmpty}
SmallPool == {CandTw1, CandNone}

RECURSIVE SeqsUpTo(_, _)
SeqsUpTo(S, n) ==
    IF n = 0 THEN {<<>>}
    ELSE LET shorter == SeqsUpTo(S, n - 1)
         IN  shorter \cup {Append(s, x) : s \in {t \in shorter : Len(t) = n - 1}, x \in S}

(***************************************************************************)
(* The store.                                                              *)
(***************************************************************************)
\* variant: the lookup ignores the source
find_one_any_source(coll, source, source_id) ==
    \E k \in 1..Len(coll) : coll[k].source_id = source_id

\* collection.find_one({"source": s, "source_id": sid}) is not None
find_one(coll, source, source_id) ==
    \E k \in 1..Len(coll) : coll[k].source = source /\ coll[k].source_id = source_id

\* the document built from a candidate; _id is assigned by the store
Doc(id, r, created_at) ==
    [_id |-> id, text |-> r.text, sentiment |-> r.sentiment, score |-> r.score,
     source |-> r.source, source_id |-> r.source_id, created_at |-> created_at]

\* insert_many(docs): appended in order, ids assigned in order
RECURSIVE insert_many(_, _, _)
insert_many(coll, recs, created_at) ==
    IF recs = <<>> THEN coll
    ELSE insert_many(Append(coll, Doc(Len(coll) + 1, Head(recs), created_at)),
                     Tail(recs), created_at)

HasId(r) == Truthy(r.source_id)
NoId(r)  == ~Truthy(r.source_id)
records_with_id(records)    == SelectSeq(records, HasId)
records_without_id(records) == SelectSeq(records, NoId)

\* SentimentRecord as returned to the client: the model has no source_id field
_doc_to_model(doc) ==
    [id |-> doc._id, text |-> doc.text, sentiment |-> doc.sentiment,
     score |-> doc.score, source |-> doc.source, created_at |-> doc.created_at]

Key(r) == <<r.source, r.source_id>>

\* lines 146-153: the candidates queued for insertion, id-bearing ones first
NotExisting(records, existing_ids) ==
    LET Keep(r) == Key(r) \notin existing_ids
    IN  SelectSeq(records_with_id(records), Keep)

\* variant: of the candidates of the batch that share a pair only the first
\* is queued
to_insert_distinct(records, existing_ids) ==
    LET queue == NotExisting(records, existing_ids)
        first == {k \in 1..Len(queue) :
                    \A j \in 1..(k - 1) : Key(queue[j]) # Key(queue[k])}
        RECURSIVE Pick(_)
        Pick(k) == IF k > Len(queue) THEN <<>>
                   ELSE (IF k \in first THEN <<queue[k]>> ELSE <<>>)
                        \o Pick(k + 1)
    IN  Pick(1) \o records_without_id(records)

to_insert(records, existing_ids) ==
    NotExisting(records, existing_ids) \o records_without_id(records)

\* variant: one skip per distinct pair found
skipped_per_pair(records, existing_ids) ==
    Cardinality({<<r.source, r.source_id>> : r \in
                    {records[k] : k \in 1..Len(records)}} \cap existing_ids)

\* lines 146-148: one skip per id-bearing candidate whose pair was found
skipped_count(records, existing_ids) ==
    Len(records_with_id(records)) - Len(NotExisting(records, existing_ids))

\* no read request in flight; pages holds the responses a client that walks
\* the pages has collected so far
QueryIdle == [pc |-> "idle", op |-> "none", args |-> <<>>, before |-> <<>>,
              after |-> <<>>, total |-> 0, ret |-> <<>>, exc |-> <<>>,
              queries |-> 0, pages |-> <<>>]

Idle == [pc |-> "idle", op |-> "none", records |-> <<>>, i |-> 0,
         existing_ids |-> {}, created_count |-> 0, skipped_count |-> 0,
         before |-> <<>>, insertLen |-> 0, afterLen |-> 0, first |-> <<>>, ret |-> <<>>]

\* the batches clients submit
FullBatches  == SeqsUpTo(FullPool, MaxBatch)
SmallBatches == SeqsUpTo(SmallPool, MaxBatch)

(***************************************************************************)
(* SentimentService.create: one insert_one, no existence check.            *)
(***************************************************************************)
\* variant: a record whose (source, source_id) is stored replaces the stored
\* one (replace_one with upsert)
CreateUpsert(c, data) ==
    /\ req[c].pc = "idle"
    /\ LET same == {k \in 1..Len(collection) :
                      /\ collection[k].source = data.source
                      /\ collection[k].source_id = data.source_id}
           at   == IF same = {} THEN Len(collection) + 1
                   ELSE CHOOSE k \in same : \A other \in same : k <= other
           doc  == Doc(at, data, now)
       IN  /\ collection' = IF same = {} THEN Append(collection, doc)
                            ELSE [collection EXCEPT ![at] = doc]
           /\ req' = [req EXCEPT ![c] =
                        [Idle EXCEPT !.pc = "done", !.op = "create",
                                     !.records = <<data>>,
                                     !.before = collection,
                                     !.insertLen = Len(collection),
                                     !.afterLen = Len(collection'),
                                     !.created_count = 1,
                                     !.ret = <<_doc_to_model(doc)>>]]
    /\ UNCHANGED <<q, now, analyzer, worker>>

\* variant: a record whose (source, source_id) is stored is not inserted
\* again, the stored one is returned
CreateIfAbsent(c, data) ==
    /\ req[c].pc = "idle"
    /\ LET same == {k \in 1..Len(collection) :
                      /\ collection[k].source = data.source
                      /\ collection[k].source_id = data.source_id}
           doc  == IF same = {} THEN Doc(Len(collection) + 1, data, now)
                   ELSE collection[CHOOSE k \in same : TRUE]
       IN  /\ collection' = IF same = {} THEN Append(collection, doc)
                            ELSE collection
           /\ req' = [req EXCEPT ![c] =
                        [Idle EXCEPT !.pc = "done", !.op = "create",
                                     !.records = <<data>>,
                                     !.before = collection,
                                     !.insertLen = Len(collection),
                                     !.afterLen = Len(collection'),
                                     !.created_count = 1,
                                     !.ret = <<_doc_to_model(doc)>>]]
    /\ UNCHANGED <<q, now, analyzer, worker>>

Create(c, data) ==
    /\ req[c].pc = "idle"
    /\ LET doc == Doc(Len(collection) + 1, data, now)
       IN  /\ collection' = Append(collection, doc)
           /\ req' = [req EXCEPT ![c] =
                        [Idle EXCEPT !.pc = "done", !.op = "create",
                                     !.records = <<data>>,
                                     !.before = collection,
                                     !.insertLen = Len(collection),
                                     !.afterLen = Len(collection) + 1,
                                     !.created_count = 1,
                                     !.ret = <<_doc_to_model(doc)>>]]
    /\ UNCHANGED <<q, now, analyzer, worker>>

(***************************************************************************)
(* SentimentService.create_batch, one step per await.                      *)
(***************************************************************************)
\* the call starts: lines 129-134
Begin(c, records, first) ==
    /\ req' = [req EXCEPT ![c] =
                 [Idle EXCEPT !.pc = "checking", !.op = "create_batch",
                              !.records = records, !.i = 1,
                              !.before = collection, !.first = first]]
    /\ UNCHANGED <<q, collection, now, analyzer, worker>>

BatchBegin(c, records) ==
    /\ req[c].pc = "idle"
    /\ Begin(c, records, <<>>)

\* lines 139-144: one find_one per id-bearing candidate
BatchFindOne(c) ==
    /\ req[c].pc = "checking"
    /\ req[c].i <= Len(records_with_id(req[c].records))
    /\ LET record == records_with_id(req[c].records)[req[c].i]
           found  == find_one(collection, record.source, record.source_id)
       IN  req' = [req EXCEPT
                     ![c].existing_ids =
                         IF found THEN @ \cup {Key(record)} ELSE @,
                     ![c].i = @ + 1]
    /\ UNCHANGED <<q, collection, now, analyzer, worker>>

\* variant: a unique index on (source, source_id), a conflict becomes a skip
BatchInsertUnique(c) ==
    /\ req[c].pc = "checking"
    /\ req[c].i > Len(SelectSeq(req[c].records, LAMBDA r : Truthy(r.source_id)))
    /\ LET stored == {<<collection[k].source, collection[k].source_id>> :
                        k \in 1..Len(collection)}
           withId == SelectSeq(req[c].records, LAMBDA r : Truthy(r.source_id))
           noId   == SelectSeq(req[c].records, LAMBDA r : ~Truthy(r.source_id))
           queue  == SelectSeq(withId, LAMBDA r :
                        <<r.source, r.source_id>> \notin stored) \o noId
       IN  /\ collection' = insert_many(collection, queue, now)
           /\ req' = [req EXCEPT
                        ![c].pc = "done",
                        ![c].insertLen = Len(collection),
                        ![c].afterLen = Len(collection'),
                        ![c].skipped_count = Len(req[c].records) - Len(queue),
                        ![c].created_count = Len(queue)]
    /\ UNCHANGED <<q, now, analyzer, worker>>

\* lines 146-175: filter, insert_many with one timestamp, return the counts
BatchInsert(c) ==
    /\ req[c].pc = "checking"
    /\ req[c].i > Len(records_with_id(req[c].records))
    /\ LET queue == to_insert(req[c].records, req[c].existing_ids)
       IN  /\ collection' = insert_many(collection, queue, now)
           /\ req' = [req EXCEPT
                        ![c].pc = "done",
                        ![c].insertLen = Len(collection),
                        ![c].afterLen = Len(collection'),
                        ![c].skipped_count =
                            skipped_count(req[c].records, req[c].existing_ids),
                        ![c].created_count = Len(queue)]
    /\ UNCHANGED <<q, now, analyzer, worker>>

\* the client takes the result
Return(c) ==
    /\ req[c].pc = "done"
    /\ req' = [req EXCEPT ![c] = Idle]
    /\ UNCHANGED <<q, collection, now, analyzer, worker>>

\* the client submits the batch it just submitted once more
BatchResubmit(c) ==
    /\ req[c].pc = "done"
    /\ req[c].op = "create_batch"
    /\ Begin(c, req[c].records,
             <<[created_count |-> req[c].created_count,
                skipped_count |-> req[c].skipped_count,
                before |-> req[c].before,
                after |-> collection]>>)

(***************************************************************************)
(* Dates.  A datetime is a whole number of hours since 1970-01-01T00:00Z;  *)
(* $dateToString reads its calendar fields in UTC.                         *)
(***************************************************************************)
\* the day number of a calendar date, 1970-01-01 being day 0
days_from_civil(y, m, d) ==
    LET yy  == IF m <= 2 THEN y - 1 ELSE y
        era == yy \div 400
        yoe == yy - era * 400
        mp  == IF m > 2 THEN m - 3 ELSE m + 9
        doy == (153 * mp + 2) \div 5 + d - 1
        doe == yoe * 365 + yoe \div 4 - yoe \div 100 + doy
    IN  era * 146097 + doe - 719468

\* the calendar date of a day number
civil_from_days(z) ==
    LET zz  == z + 719468
        era == zz \div 146097
        doe == zz - era * 146097
        yoe == (doe - doe \div 1460 + doe \div 36524 - doe \div 146096) \div 365
        doy == doe - (365 * yoe + yoe \div 4 - yoe \div 100)
        mp  == (5 * doy + 2) \div 153
        d   == doy - (153 * mp + 2) \div 5 + 1
        m   == IF mp < 10 THEN mp + 3 ELSE mp - 9
        y   == yoe + era * 400 + (IF m <= 2 THEN 1 ELSE 0)
    IN  [year |-> y, month |-> m, day |-> d]

datetime(y, m, d, h) == days_from_civil(y, m, d) * 24 + h

DayOf(t)  == t \div 24
HourOf(t) == t % 24

\* ISO weekday of a day number, Monday = 1 .. Sunday = 7
isoweekday(z) == ((z + 3) % 7) + 1

is_leap(y) == (y % 4 = 0 /\ y % 100 # 0) \/ y % 400 = 0

\* the number of ISO weeks of a year: 53 when January 1st is a Thursday, or
\* a Wednesday in a leap year
iso_weeks_in_year(y) ==
    LET jan1 == isoweekday(days_from_civil(y, 1, 1))
    IN  IF jan1 = 4 \/ (jan1 = 3 /\ is_leap(y)) THEN 53 ELSE 52

\* %V: the ISO 8601 week number (01..53) of the date
iso_week(z) ==
    LET y       == civil_from_days(z).year
        ordinal == z - days_from_civil(y, 1, 1) + 1
        w       == (ordinal - isoweekday(z) + 10) \div 7
    IN  IF w < 1 THEN iso_weeks_in_year(y - 1)
        ELSE IF w > iso_weeks_in_year(y) THEN 1
        ELSE w

\* $dateToString with the format of the granularity.  The key is the tuple
\* of the formatted fields: %Y has four digits and %m, %d, %H, %V two, so
\* the order of the strings is the order of the tuples field by field.
\*   hour "%Y-%m-%dT%H:00:00", day "%Y-%m-%d", week "%Y-W%V", month "%Y-%m"
date_to_string(granularity, t) ==
    LET c == civil_from_days(DayOf(t))
    IN  IF granularity = "hour" THEN <<c.year, c.month, c.day, HourOf(t)>>
        ELSE IF granularity = "week" THEN <<c.year, iso_week(DayOf(t))>>
        ELSE IF granularity = "month" THEN <<c.year, c.month>>
        ELSE <<c.year, c.month, c.day>>

\* the order of two keys of one format as strings
KeyLess(a, b) ==
    \E i \in 1..Len(a) : a[i] < b[i] /\ \A j \in 1..(i - 1) : a[j] = b[j]

(***************************************************************************)
(* The read side of the backend: SentimentService.get_paginated and        *)
(* get_by_id, StatsService.get_summary and get_timeline.                   *)
(***************************************************************************)
DEFAULT_PAGE_SIZE == 20

\* SentimentFilter: every field is Optional
SentimentFilter(sentiment, source, date_from, date_to) ==
    [sentiment |-> sentiment, source |-> source,
     date_from |-> date_from, date_to |-> date_to]

\* the MongoDB query of a filter; None stands for a key the query lacks.
\* "if filters.sentiment", "if filters.source": None and "" add no key;
\* a datetime is always truthy
_build_filter_query(filters) ==
    [sentiment |-> IF Truthy(filters.sentiment) THEN filters.sentiment ELSE None,
     source    |-> IF Truthy(filters.source) THEN filters.source ELSE None,
     gte       |-> filters.date_from,
     lte       |-> filters.date_to]

\* variant: $lt in place of $lte
matches_exclusive(doc, query) ==
    /\ query.sentiment # None => doc.sentiment = query.sentiment[1]
    /\ query.source # None => doc.source = query.source[1]
    /\ query.gte # None => doc.created_at >= query.gte[1]
    /\ query.lte # None => doc.created_at < query.lte[1]

\* the document satisfies the query: equality on sentiment and source,
\* $gte and $lte on created_at
matches(doc, query) ==
    /\ query.sentiment # None => doc.sentiment = query.sentiment[1]
    /\ query.source # None => doc.source = query.source[1]
    /\ query.gte # None => doc.created_at >= query.gte[1]
    /\ query.lte # None => doc.created_at <= query.lte[1]

\* collection.find(query), in insertion order
find(coll, query) == SelectSeq(coll, LAMBDA doc : matches(doc, query))

\* collection.count_documents(query)
count_documents(coll, query) == Len(find(coll, query))

\* the orders in which .sort("created_at", -1) may deliver a set of
\* documents: created_at descending, documents with equal created_at in any
\* order (MongoDB fixes no order among equal sort keys)
RECURSIVE sorted_desc(_)
sorted_desc(docs) ==
    IF docs = {} THEN {<<>>}
    ELSE UNION {{<<d>> \o rest : rest \in sorted_desc(docs \ {d})} :
                  d \in {x \in docs :
                            \A e \in docs : e.created_at <= x.created_at}}

\* .skip(skip).limit(limit).to_list(length=limit)
skip_limit(docs, skip, limit) ==
    SubSeq(docs, skip + 1, Min(skip + limit, Len(docs)))

\* variant: the last page is not counted when it is not full
total_pages_floor(total, limit) ==
    IF total > 0 THEN total \div limit ELSE 0

\* routes/sentiments.py line 59
total_pages(total, limit) ==
    IF total > 0 THEN (total + limit - 1) \div limit ELSE 0

PaginationMeta(page, limit, total, pages) ==
    [page |-> page, limit |-> limit, total |-> total, total_pages |-> pages]

\* str(ObjectId) and ObjectId(str): 24 hexadecimal digits
HexDigits == <<"0", "1", "2", "3", "4", "5", "6", "7", "8", "9",
               "a", "b", "c", "d", "e", "f">>

HexValue(ch) == (CHOOSE i \in 1..16 : HexDigits[i] = ch) - 1

\* str(doc["_id"]) of the document with the id number n
oid_str(n) == [k \in 1..24 |-> IF k = 24 THEN HexDigits[(n % 16) + 1]
                               ELSE IF k = 23 THEN HexDigits[(n \div 16) + 1]
                               ELSE "0"]

\* ObjectId(s) does not raise InvalidId
oid_is_valid(s) ==
    /\ Len(s) = 24
    /\ \A k \in 1..24 : \E i \in 1..16 : HexDigits[i] = s[k]

\* the id number of ObjectId(s), s being valid
RECURSIVE ObjectId(_)
ObjectId(s) ==
    IF s = <<>> THEN 0
    ELSE ObjectId(SubSeq(s, 1, Len(s) - 1)) * 16 + HexValue(s[Len(s)])

\* exceptions/handlers.py
NotFoundError   == [code |-> "NOT_FOUND", status_code |-> 404]
ValidationError == [code |-> "VALIDATION_ERROR", status_code |-> 422]

\* variant: the quotient is cut off, not rounded
round_down(n, d) == n \div d

\* round(n / d) as Python rounds: to the nearest, a half to the even
round_half_even(n, d) ==
    LET whole == n \div d
        rest  == n % d
    IN  IF 2 * rest < d THEN whole
        ELSE IF 2 * rest > d THEN whole + 1
        ELSE IF whole % 2 = 0 THEN whole ELSE whole + 1

\* $sum of $cond [$eq [$sentiment, label]], 1, 0
LabelCount(docs, label) ==
    Len(SelectSeq(docs, LAMBDA doc : doc.sentiment = label))

RECURSIVE ScoreSum(_)
ScoreSum(docs) ==
    IF docs = <<>> THEN 0 ELSE Head(docs).score + ScoreSum(Tail(docs))

\* round((count / total) * 100, 2) if total > 0 else 0.0, in hundredths of
\* a percent
percentage(count, total) ==
    IF total > 0 THEN round_half_even(count * 10000, total) ELSE 0

SentimentStats(total, positive, negative, neutral, pp, np, up, avg) ==
    [total_count |-> total, positive_count |-> positive,
     negative_count |-> negative, neutral_count |-> neutral,
     positive_percentage |-> pp, negative_percentage |-> np,
     neutral_percentage |-> up, average_score |-> avg]

\* StatsService.get_summary: the $group over the whole collection yields no
\* result for an empty collection.  average_score is in ten-thousandths
\* (the scores are in hundredths).
get_summary(coll) ==
    IF coll = <<>> THEN SentimentStats(0, 0, 0, 0, 0, 0, 0, 0)
    ELSE LET total    == Len(coll)
             positive == LabelCount(coll, "positive")
             negative == LabelCount(coll, "negative")
             neutral  == LabelCount(coll, "neutral")
         IN  SentimentStats(total, positive, negative, neutral,
                            percentage(positive, total),
                            percentage(negative, total),
                            percentage(neutral, total),
                            round_half_even(ScoreSum(coll) * 100, total))

\* the keys of a set in ascending order: $sort {"_id": 1}
RECURSIVE sort_keys(_)
sort_keys(keys) ==
    IF keys = {} THEN <<>>
    ELSE LET least == CHOOSE k \in keys :
                         \A other \in keys \ {k} : KeyLess(k, other)
         IN  <<least>> \o sort_keys(keys \ {least})

TimelinePoint(date, docs) ==
    [date |-> date,
     positive |-> LabelCount(docs, "positive"),
     negative |-> LabelCount(docs, "negative"),
     neutral  |-> LabelCount(docs, "neutral"),
     total    |-> Len(docs)]

\* variant: the upper bound of the range is left out of the $match
get_timeline_open_end(coll, date_from, date_to, granularity) ==
    LET query   == [sentiment |-> None, source |-> None,
                    gte |-> date_from, lte |-> None]
        matched == find(coll, query)
        KeyOf(doc) == date_to_string(granularity, doc.created_at)
        keys    == sort_keys({KeyOf(matched[k]) : k \in 1..Len(matched)})
    IN  [k \in 1..Len(keys) |->
            TimelinePoint(keys[k],
                          SelectSeq(matched, LAMBDA doc : KeyOf(doc) = keys[k]))]

\* StatsService.get_timeline: $match, $group by $dateToString, $sort
get_timeline(coll, date_from, date_to, granularity) ==
    LET query   == [sentiment |-> None, source |-> None,
                    gte |-> date_from, lte |-> date_to]
        matched == find(coll, query)
        KeyOf(doc) == date_to_string(granularity, doc.created_at)
        keys    == sort_keys({KeyOf(matched[k]) : k \in 1..Len(matched)})
    IN  [k \in 1..Len(keys) |->
            TimelinePoint(keys[k],
                          SelectSeq(matched, LAMBDA doc : KeyOf(doc) = keys[k]))]

(***************************************************************************)
(* The read requests, one step per await.                                  *)
(***************************************************************************)
\* GET /sentiments: lines 47-57 of the route, then count_documents
ListCount(page, limit, filters) ==
    /\ q.pc = "idle"
    /\ LET lim   == IF limit = None THEN DEFAULT_PAGE_SIZE ELSE limit[1]
           query == _build_filter_query(filters)
       IN  q' = [QueryIdle EXCEPT
                    !.pc = "counted", !.op = "list",
                    !.args = [page |-> page, limit |-> lim,
                              filters |-> filters],
                    !.before = collection,
                    !.total = count_documents(collection, query),
                    !.queries = 1]
    /\ UNCHANGED <<store, analyzer, worker>>

\* find().sort().skip().limit(), _doc_to_model, then line 59 of the route
ListFind ==
    /\ q.pc = "counted"
    /\ LET query   == _build_filter_query(q.args.filters)
           matched == find(collection, query)
           skip    == (q.args.page - 1) * q.args.limit
       IN  \E docs \in sorted_desc({matched[k] : k \in 1..Len(matched)}) :
              LET page == skip_limit(docs, skip, q.args.limit)
              IN  q' = [q EXCEPT
                          !.pc = "done",
                          !.after = collection,
                          !.queries = 2,
                          !.ret = <<[data |-> [k \in 1..Len(page) |->
                                                  _doc_to_model(page[k])],
                                     meta |-> PaginationMeta(
                                        q.args.page, q.args.limit, q.total,
                                        total_pages(q.total, q.args.limit))]>>]
    /\ UNCHANGED <<store, analyzer, worker>>

\* a client that walks the pages from the first one keeps the response and
\* asks for the next page with the same limit and filter: count_documents of
\* the next request
ListNextPage ==
    /\ q.pc = "done" /\ q.op = "list"
    /\ Len(q.pages) = q.args.page - 1
    /\ q.args.page < q.ret[1].meta.total_pages
    /\ LET query == _build_filter_query(q.args.filters)
       IN  q' = [QueryIdle EXCEPT
                    !.pc = "counted", !.op = "list",
                    !.args = [q.args EXCEPT !.page = @ + 1],
                    !.before = collection,
                    !.total = count_documents(collection, query),
                    !.queries = 1,
                    !.pages = Append(q.pages,
                                     [data |-> q.ret[1].data,
                                      total_pages |-> q.ret[1].meta.total_pages,
                                      before |-> q.before,
                                      after |-> q.after])]
    /\ UNCHANGED <<store, analyzer, worker>>

\* variant: a malformed id is looked up like any other and not found
GetByIdLenient(sentiment_id) ==
    /\ q.pc = "idle"
    /\ LET call == [QueryIdle EXCEPT
                       !.pc = "done", !.op = "get_by_id",
                       !.args = [sentiment_id |-> sentiment_id],
                       !.before = collection, !.after = collection,
                       !.queries = 1]
           found == SelectSeq(collection,
                              LAMBDA doc : oid_str(doc._id) = sentiment_id)
       IN  IF found = <<>>
           THEN q' = [call EXCEPT !.exc = <<NotFoundError>>]
           ELSE q' = [call EXCEPT
                         !.ret = <<[data |-> _doc_to_model(found[1])]>>]
    /\ UNCHANGED <<store, analyzer, worker>>

\* GET /sentiments/{sentiment_id}
GetById(sentiment_id) ==
    /\ q.pc = "idle"
    /\ LET call == [QueryIdle EXCEPT
                       !.pc = "done", !.op = "get_by_id",
                       !.args = [sentiment_id |-> sentiment_id],
                       !.before = collection, !.after = collection]
       IN  IF ~oid_is_valid(sentiment_id)
           THEN q' = [call EXCEPT !.exc = <<ValidationError>>]
           ELSE LET object_id == ObjectId(sentiment_id)
                    found == SelectSeq(collection,
                                       LAMBDA doc : doc._id = object_id)
                IN  IF found = <<>>
                    THEN q' = [call EXCEPT !.queries = 1,
                                           !.exc = <<NotFoundError>>]
                    ELSE q' = [call EXCEPT
                                  !.queries = 1,
                                  !.ret = <<[data |->
                                               _doc_to_model(found[1])]>>]
    /\ UNCHANGED <<store, analyzer, worker>>

\* GET /stats/summary
GetSummary ==
    /\ q.pc = "idle"
    /\ q' = [QueryIdle EXCEPT
                !.pc = "done", !.op = "get_summary",
                !.before = collection, !.after = collection,
                !.queries = 1,
                !.ret = <<[data |-> get_summary(collection)]>>]
    /\ UNCHANGED <<store, analyzer, worker>>

\* GET /stats/timeline
GetTimeline(date_from, date_to, granularity) ==
    /\ q.pc = "idle"
    /\ q' = [QueryIdle EXCEPT
                !.pc = "done", !.op = "get_timeline",
                !.args = [date_from |-> date_from, date_to |-> date_to,
                          granularity |-> granularity],
                !.before = collection, !.after = collection,
                !.queries = 1,
                !.ret = <<[data |-> get_timeline(collection, date_from,
                                                 date_to, granularity)]>>]
    /\ UNCHANGED <<store, analyzer, worker>>

\* the client takes the response
QueryReturn ==
    /\ q.pc = "done"
    /\ q' = QueryIdle
    /\ UNCHANGED <<store, analyzer, worker>>

\* the clock moves on to t
Tick(t) ==
    /\ t > now
    /\ now' = t
    /\ UNCHANGED <<collection, req, analyzer, worker, q>>

(***************************************************************************)
(* SentimentAnalyzer (src/worker/analyzer/sentiment.py).                   *)
(***************************************************************************)
NEUTRAL_THRESHOLD == 60      \* 0.6, in hundredths
MAX_TEXT_LENGTH   == 512

AnalysisResult(label, score) == [label |-> label, score |-> score]

\* str.lower() on the labels a sentiment model emits
Lower(label) ==
    CASE label = "POSITIVE" -> "positive"
      [] label = "NEGATIVE" -> "negative"
      [] label = "LABEL_1"  -> "label_1"
      [] OTHER              -> label

\* variant: scores at the threshold count as low confidence
_map_result_le(result) ==
    IF result.score <= 60
    THEN [label |-> "neutral", score |-> result.score]
    ELSE IF result.label = "POSITIVE"
         THEN [label |-> "positive", score |-> result.score]
         ELSE [label |-> "negative", score |-> result.score]

_map_result(result) ==
    LET label == Lower(result.label)
        score == result.score
    IN  IF score < NEUTRAL_THRESHOLD
        THEN AnalysisResult("neutral", score)
        ELSE IF label = "positive"
             THEN AnalysisResult("positive", score)
             ELSE AnalysisResult("negative", score)

\* text[: MAX_TEXT_LENGTH]
Truncate(text) == SubSeq(text, 1, IF Len(text) < MAX_TEXT_LENGTH
                                  THEN Len(text) ELSE MAX_TEXT_LENGTH)

\* analyze(text): line 62-64
analyze(text) == _map_result(classifier[Truncate(text)])

\* variant: the batch is scored without truncation
analyze_batch_untruncated(texts) ==
    [k \in 1..Len(texts) |-> _map_result(classifier[texts[k]])]

\* analyze_batch(texts): lines 78-87
analyze_batch(texts) ==
    IF texts = <<>> THEN <<>>
    ELSE LET truncated == [k \in 1..Len(texts) |-> Truncate(texts[k])]
             results   == [k \in 1..Len(truncated) |-> classifier[truncated[k]]]
         IN  [k \in 1..Len(results) |-> _map_result(results[k])]

\* model invocations made by analyze_batch(texts)
BatchModelCalls(texts) == IF texts = <<>> THEN 0 ELSE 1

Repeat(ch, n) == [k \in 1..n |-> ch]

TextShort  == <<"g","o","o","d">>
TextExact  == Repeat("a", MAX_TEXT_LENGTH)
TextLongX  == Repeat("a", MAX_TEXT_LENGTH) \o <<"x">>
TextLongY  == Repeat("a", MAX_TEXT_LENGTH) \o <<"y", "y">>
TextPool   == {TextShort, TextExact, TextLongX, TextLongY}

RawLabels  == {"POSITIVE", "NEGATIVE", "LABEL_1"}
RawScores  == {0, 59, 60, 61, 100}
RawOutputs == [label : RawLabels, score : RawScores]

\* the outputs a model under test assigns to the texts
ModelOutputs == {[label |-> "POSITIVE", score |-> 59],
                 [label |-> "POSITIVE", score |-> 60],
                 [label |-> "NEGATIVE", score |-> 100]}

NoCalls == [pc |-> "ready", op |-> "none", input |-> <<>>, output |-> <<>>,
            calls |-> 0]

\* _map_result on one raw model output
MapResult(raw) ==
    /\ an.pc = "ready"
    /\ an' = [pc |-> "done", op |-> "_map_result", input |-> <<raw>>,
              output |-> <<_map_result(raw)>>, calls |-> an.calls]
    /\ UNCHANGED <<q, store, classifier, worker>>

Analyze(text) ==
    /\ an.pc = "ready"
    /\ an' = [pc |-> "done", op |-> "analyze", input |-> <<text>>,
              output |-> <<analyze(text)>>, calls |-> an.calls + 1]
    /\ UNCHANGED <<q, store, classifier, worker>>

AnalyzeBatch(texts) ==
    /\ an.pc = "ready"
    /\ an' = [pc |-> "done", op |-> "analyze_batch", input |-> texts,
              output |-> analyze_batch(texts),
              calls |-> an.calls + BatchModelCalls(texts)]
    /\ UNCHANGED <<q, store, classifier, worker>>

\* the caller takes the result; the call counter restarts
AnalyzerReturn ==
    /\ an.pc = "done"
    /\ an' = NoCalls
    /\ UNCHANGED <<q, store, classifier, worker>>

(***************************************************************************)
(* Request validation at the ingestion boundary                            *)
(* (src/backend/app/models/sentiment.py).                                  *)
(***************************************************************************)
SentimentLabels == {"positive", "negative", "neutral"}

\* SentimentCreate: the Field constraints, lines 119-125
SentimentCreateValid(r) ==
    /\ Len(r.text) >= 1 /\ Len(r.text) <= 5000
    /\ r.sentiment \in SentimentLabels
    /\ r.score >= 0 /\ r.score <= 100
    /\ Len(r.source) >= 1 /\ Len(r.source) <= 50
    /\ r.source_id # None => Len(r.source_id[1]) <= 100

\* SentimentBatchCreate: 1 to 100 valid records, lines 147-149
SentimentBatchCreateValid(records) ==
    /\ Len(records) >= 1 /\ Len(records) <= 100
    /\ \A k \in 1..Len(records) : SentimentCreateValid(records[k])

\* POST /api/v1/sentiments/batch: the status the boundary answers with before
\* the service runs
BatchRouteStatus(records) ==
    IF SentimentBatchCreateValid(records) THEN 200 ELSE 422

(***************************************************************************)
(* Fetchers as the pipeline uses them (src/worker/fetcher).                *)
(* A response status of 0 stands for a network exception.                  *)
(***************************************************************************)
FetchedPost(source_id, text, source, author, created_at) ==
    [source_id |-> source_id, text |-> text, source |-> source,
     author |-> author, created_at |-> created_at]

PostT1   == FetchedPost("1", <<"g","o","o","d">>, "twitter", "ann",
                        "2026-01-29T10:30:00Z")
PostT2   == FetchedPost("2", <<"b","a","d">>, "twitter", "bob",
                        "2026-01-29T10:31:00Z")
PostTBad == FetchedPost("3", <<>>, "twitter", "unknown",
                        "2026-01-29T10:32:00Z")
PostR1   == FetchedPost("1", Repeat("r", 10), "reddit", "cat",
                        "2026-01-29T10:30:00+00:00")
PostR2   == FetchedPost("", Repeat("s", 11), "reddit", "dan",
                        "2026-01-29T10:31:00+00:00")
PostR3   == FetchedPost("", Repeat("s", 11), "reddit", "[deleted]",
                        "1970-01-01T00:00:00+00:00")

\* what each source has to offer, newest first
Feed(name) == IF name = "twitter" THEN <<PostT1, PostT2, PostTBad>>
              ELSE <<PostR1, PostR2, PostR3>>

PostTexts == {Feed(n)[k].text : n \in {"twitter", "reddit"}, k \in 1..3}

\* a busy keyword: the source has a full page of 100 posts to offer, each
\* with an id of its own
BulkFeed(name) ==
    [k \in 1..100 |->
        FetchedPost("b" \o ToString(k),
                    IF name = "twitter" THEN PostT1.text ELSE PostR1.text,
                    name, "eve", "2026-01-29T11:00:00Z")]


\* TwitterFetcher.health_check
\* variant: the probe is sent whether or not a token is configured
twitter_health_any_token(token, status) ==
    IF status = 0 THEN FALSE
    ELSE IF status = 200 THEN TRUE
    ELSE IF status = 401 THEN FALSE
    ELSE IF status = 429 THEN TRUE
    ELSE FALSE

\* TwitterFetcher.health_check
twitter_health(token, status) ==
    IF ~token THEN FALSE
    ELSE IF status = 0 THEN FALSE
    ELSE IF status = 200 THEN TRUE
    ELSE IF status = 401 THEN FALSE
    ELSE IF status = 429 THEN TRUE
    ELSE FALSE

\* variant: a rate-limited Reddit counts as unreachable
reddit_health_strict(status) ==
    IF status = 0 THEN FALSE
    ELSE status = 200

\* RedditFetcher.health_check
reddit_health(status) ==
    IF status = 0 THEN FALSE
    ELSE IF status = 200 THEN TRUE
    ELSE IF status = 429 THEN TRUE
    ELSE FALSE

\* APIClient.health_check
api_health(status) ==
    IF status = 0 THEN FALSE
    ELSE status = 200

\* the lists fetch(keyword, limit) may return: the source answers with at
\* most min(limit, 100) posts; without a token Twitter is not asked
FetchResults(name, token, limit) ==
    IF name = "twitter" /\ ~token THEN {<<>>}
    ELSE UNION {{SubSeq(feed, 1, n) :
                    n \in 0..Min(Len(feed), Min(limit, 100))} :
                  feed \in {Feed(name), BulkFeed(name)}}

(***************************************************************************)
(* One call of a fetcher, response by response                             *)
(* (src/worker/fetcher/twitter.py, src/worker/fetcher/reddit.py).          *)
(***************************************************************************)
\* an element of the response that lacks a key the fetcher reads
Malformed == [malformed |-> TRUE]

\* a response: status 0 stands for an exception of client.get(); json tells
\* whether the body parses, data whether it has the key(s) the fetcher looks
\* for, items are the tweets or children it lists
Response(status, json, data, items) ==
    [status |-> status, json |-> json, data |-> data, items |-> items]

FetchIdle ==
    [pc |-> "idle", op |-> "none", name |-> "none", token |-> FALSE,
     limit |-> 0, attempt |-> 0, posts |-> <<>>, waits |-> <<>>,
     responses |-> <<>>, ret |-> <<>>, exc |-> <<>>, failure |-> FALSE,
     status |-> 0, healthy |-> FALSE]

\* reddit.py lines 116-118: shorter texts are skipped
REDDIT_MIN_TEXT == 10

\* the posts built from the items before the first malformed one, texts
\* shorter than min_len being skipped
RECURSIVE Accumulate(_, _)
Accumulate(items, min_len) ==
    IF items = <<>> THEN [posts |-> <<>>, failed |-> FALSE]
    ELSE IF Head(items) = Malformed THEN [posts |-> <<>>, failed |-> TRUE]
    ELSE LET rest == Accumulate(Tail(items), min_len)
         IN  IF Len(Head(items).text) >= min_len
             THEN [rest EXCEPT !.posts = <<Head(items)>> \o @]
             ELSE rest

\* variant: no wait follows the last attempt, whatever the status, and a
\* network exception is retried like an HTTP error
twitter_attempt_retry_all(f, resp) ==
    LET a     == f.attempt
        seen  == [f EXCEPT !.responses = Append(@, resp.status)]
        \* continue: the next attempt, or the end of the loop and line 163
        again(w) ==
            IF a = 2
            THEN [seen EXCEPT !.pc = "done", !.waits = Append(@, w),
                              !.ret = f.posts, !.failure = TRUE]
            ELSE [seen EXCEPT !.attempt = a + 1, !.waits = Append(@, w),
                              !.failure = TRUE]
        \* break, then line 163
        stop(posts) ==
            [seen EXCEPT !.pc = "done", !.waits = Append(@, 0),
                         !.posts = posts, !.ret = posts, !.failure = TRUE]
        acc   == Accumulate(resp.items, 0)
    IN  IF resp.status = 0 THEN again(IF a < 2 THEN 2 ^ a ELSE 0)
        ELSE IF resp.status = 429
        THEN again(IF a < 2 THEN (2 ^ a) * 5 ELSE 0)
        ELSE IF resp.status >= 400 THEN again(IF a < 2 THEN 2 ^ a ELSE 0)
        ELSE IF ~resp.json THEN stop(f.posts)
        ELSE IF ~resp.data
        THEN [seen EXCEPT !.pc = "done", !.waits = Append(@, 0), !.ret = <<>>]
        ELSE IF acc.failed THEN stop(f.posts \o acc.posts)
        ELSE [seen EXCEPT !.pc = "done", !.waits = Append(@, 0),
                          !.posts = f.posts \o acc.posts,
                          !.ret = f.posts \o acc.posts]

\* twitter.py lines 113-163: one turn of "for attempt in range(3)" on the
\* call f, the request being answered by resp
twitter_attempt(f, resp) ==
    LET a     == f.attempt
        seen  == [f EXCEPT !.responses = Append(@, resp.status)]
        \* continue: the next attempt, or the end of the loop and line 163
        again(w) ==
            IF a = 2
            THEN [seen EXCEPT !.pc = "done", !.waits = Append(@, w),
                              !.ret = f.posts, !.failure = TRUE]
            ELSE [seen EXCEPT !.attempt = a + 1, !.waits = Append(@, w),
                              !.failure = TRUE]
        \* break, then line 163
        stop(posts) ==
            [seen EXCEPT !.pc = "done", !.waits = Append(@, 0),
                         !.posts = posts, !.ret = posts, !.failure = TRUE]
        acc   == Accumulate(resp.items, 0)
    IN  IF resp.status = 0 THEN stop(f.posts)
        ELSE IF resp.status = 429 THEN again((2 ^ a) * 5)
        ELSE IF resp.status >= 400 THEN again(IF a < 2 THEN 2 ^ a ELSE 0)
        ELSE IF ~resp.json THEN stop(f.posts)
        ELSE IF ~resp.data
        THEN [seen EXCEPT !.pc = "done", !.waits = Append(@, 0), !.ret = <<>>]
        ELSE IF acc.failed THEN stop(f.posts \o acc.posts)
        ELSE [seen EXCEPT !.pc = "done", !.waits = Append(@, 0),
                          !.posts = f.posts \o acc.posts,
                          !.ret = f.posts \o acc.posts]

\* reddit.py lines 85-144: the one request of fetch() is answered by resp
reddit_attempt(f, resp) ==
    LET seen == [f EXCEPT !.responses = Append(@, resp.status),
                          !.waits = Append(@, 0), !.pc = "done"]
        acc  == Accumulate(resp.items, REDDIT_MIN_TEXT)
    IN  IF resp.status = 0 THEN [seen EXCEPT !.ret = <<>>, !.failure = TRUE]
        ELSE IF resp.status = 429
        THEN [seen EXCEPT !.ret = <<>>, !.failure = TRUE]
        ELSE IF resp.status >= 400
        THEN [seen EXCEPT !.ret = <<>>, !.failure = TRUE]
        ELSE IF ~resp.json THEN [seen EXCEPT !.ret = <<>>, !.failure = TRUE]
        ELSE IF ~resp.data THEN [seen EXCEPT !.ret = <<>>]
        ELSE IF acc.failed
        THEN [seen EXCEPT !.posts = acc.posts, !.ret = <<>>, !.failure = TRUE]
        ELSE [seen EXCEPT !.posts = acc.posts, !.ret = acc.posts]

\* await fetcher.fetch(keyword, limit): twitter.py lines 95-111,
\* reddit.py lines 79-83
FetchBegin(name, token, limit) ==
    /\ ft.pc = "idle"
    /\ ft' = IF name = "twitter" /\ ~token
             THEN [FetchIdle EXCEPT !.pc = "done", !.op = "fetch",
                                    !.name = name, !.limit = limit]
             ELSE [FetchIdle EXCEPT !.pc = "requesting", !.op = "fetch",
                                    !.name = name, !.token = token,
                                    !.limit = limit]
    /\ UNCHANGED <<q, store, analyzer, pl, http, run, log, main>>

\* the source answers the request with at most min(limit, 100) items
FetchResponse(resp) ==
    /\ ft.pc = "requesting"
    /\ Len(resp.items) <= Min(ft.limit, 100)
    /\ ft' = IF ft.name = "twitter" THEN twitter_attempt(ft, resp)
             ELSE reddit_attempt(ft, resp)
    /\ UNCHANGED <<q, store, analyzer, pl, http, run, log, main>>

\* await fetcher.health_check(), the probe being answered by status
HealthCheck(name, token, status) ==
    /\ ft.pc = "idle"
    /\ ft' = [FetchIdle EXCEPT
                 !.pc = "done", !.op = "health_check", !.name = name,
                 !.token = token, !.status = status,
                 !.responses = IF name = "twitter" /\ ~token THEN <<>>
                               ELSE <<status>>,
                 !.healthy = IF name = "twitter"
                             THEN twitter_health(token, status)
                             ELSE reddit_health(status)]
    /\ UNCHANGED <<q, store, analyzer, pl, http, run, log, main>>

\* the caller takes the list or the verdict
FetchReturn ==
    /\ ft.pc = "done"
    /\ ft' = FetchIdle
    /\ UNCHANGED <<q, store, analyzer, pl, http, run, log, main>>

(***************************************************************************)
(* APIClient.save_batch (src/worker/storage/api_client.py).                *)
(***************************************************************************)
\* variant: the results are paired with the posts from the far end
save_batch_records_reversed(posts, results) ==
    [k \in 1..Min(Len(posts), Len(results)) |->
        SentimentCreate(posts[k].text,
                        results[Len(results) + 1 - k].label,
                        results[Len(results) + 1 - k].score,
                        posts[k].source, Some(posts[k].source_id))]

\* lines 101-110: zip(posts, results)
save_batch_records(posts, results) ==
    [k \in 1..Min(Len(posts), Len(results)) |->
        SentimentCreate(posts[k].text, results[k].label, results[k].score,
                        posts[k].source, Some(posts[k].source_id))]

\* APIClient.save_batch up to the answer of the backend, lines 95-119: open
\* tells whether the client is open, delivered whether the request arrives
save_batch(posts, results, open, delivered) ==
    LET records == save_batch_records(posts, results)
        call    == [posts |-> posts, results |-> results, records |-> <<>>,
                    sent |-> FALSE, exc |-> <<>>, ret |-> <<>>]
    IN  IF Len(posts) # Len(results)
        THEN [call EXCEPT
                 !.exc = <<"Posts and results must have the same length">>]
        ELSE IF posts = <<>>
        THEN [call EXCEPT !.ret = <<[created_count |-> 0,
                                     skipped_count |-> 0]>>]
        ELSE IF ~open
        THEN [call EXCEPT !.exc = <<"client has been closed">>]
        ELSE IF ~delivered
        THEN [call EXCEPT !.records = records, !.sent = TRUE,
                          !.exc = <<"request failed">>]
        ELSE IF BatchRouteStatus(records) # 200
        THEN [call EXCEPT !.records = records, !.sent = TRUE,
                          !.exc = <<"HTTP 422">>]
        ELSE [call EXCEPT !.records = records, !.sent = TRUE]

(***************************************************************************)
(* Pipeline (src/worker/pipeline/orchestrator.py).                         *)
(***************************************************************************)
PipelineResult(fetched, analyzed, created, skipped) ==
    [fetched |-> fetched, analyzed |-> analyzed,
     created |-> created, skipped |-> skipped]

\* main() is not the caller of the pipeline
MainOff == [pc |-> "off", exit |-> <<>>, init |-> "none", run |-> "none",
            close |-> "none", save_failed |-> FALSE]

\* main() has built the pipeline, line 79
MainStart == [MainOff EXCEPT !.pc = "start"]

\* Pipeline.__init__; token is settings.twitter_bearer_token being set
NewPipeline(dry_run, token) ==
    [_dry_run |-> dry_run, _analyzer |-> FALSE, _api_client |-> 0,
     _fetchers |-> <<>>, _initialized |-> FALSE, token |-> token]

NoLog == [api_health |-> 0, twitter_health |-> 0, reddit_health |-> 0,
          fetch |-> 0, sent |-> 0, classify |-> 0, classify_err |-> 0,
          save |-> 0, save_err |-> 0,
          calls |-> 0, closes |-> 0, init |-> <<>>, close |-> <<>>,
          save_call |-> <<>>]

RunIdle == [pc |-> "idle", limit |-> 0, k |-> 0, all_posts |-> <<>>,
            analysis_results |-> <<>>,
            result |-> PipelineResult(0, 0, 0, 0), exc |-> <<>>,
            ready |-> FALSE, before |-> NoLog, fetched |-> <<>>,
            failed |-> <<>>, response |-> <<>>, coll |-> <<>>,
            busy |-> FALSE]

Opened(owner) == [owner |-> owner, open |-> TRUE]

\* variant: the fetchers are probed before the backend
initialize_fetchers_first(p, h, l, api, tw, rd) ==
    IF p._initialized
    THEN [pl |-> p, http |-> h, log |-> l, exc |-> <<>>]
    ELSE
    LET h3  == IF p.token THEN Append(h, Opened("twitter")) ELSE h
        l3  == IF p.token THEN [l EXCEPT !.twitter_health = @ + 1] ELSE l
        f3  == IF twitter_health(p.token, tw)
               THEN Append(p._fetchers, [name |-> "twitter", _client |-> Len(h3)])
               ELSE p._fetchers
        h4  == Append(h3, Opened("reddit"))
        l4  == [l3 EXCEPT !.reddit_health = @ + 1]
        f4  == IF reddit_health(rd)
               THEN Append(f3, [name |-> "reddit", _client |-> Len(h4)])
               ELSE f3
        h5  == IF p._dry_run THEN h4 ELSE Append(h4, Opened("api"))
        l5  == IF p._dry_run THEN l4 ELSE [l4 EXCEPT !.api_health = @ + 1]
        p5  == [p EXCEPT !._analyzer = TRUE, !._fetchers = f4,
                         !._api_client = IF p._dry_run THEN @ ELSE Len(h5)]
    IN  IF ~p._dry_run /\ ~api_health(api)
        THEN [pl |-> p5, http |-> h5, log |-> l5,
              exc |-> <<"Backend API is not accessible">>]
        ELSE IF f4 = <<>>
        THEN [pl |-> p5, http |-> h5, log |-> l5,
              exc |-> <<"No data fetchers available">>]
        ELSE [pl |-> [p5 EXCEPT !._initialized = TRUE], http |-> h5,
              log |-> l5, exc |-> <<>>]

\* variant: initialize() without the test of lines 57-58
initialize_unguarded(p, h, l, api, tw, rd) ==
    LET p1  == [p EXCEPT !._analyzer = TRUE]
        h2  == IF p._dry_run THEN h ELSE Append(h, Opened("api"))
        p2  == IF p._dry_run THEN p1 ELSE [p1 EXCEPT !._api_client = Len(h2)]
        l2  == IF p._dry_run THEN l ELSE [l EXCEPT !.api_health = @ + 1]
    IN  IF ~p._dry_run /\ ~api_health(api)
        THEN [pl |-> p2, http |-> h2, log |-> l2,
              exc |-> <<"Backend API is not accessible">>]
        ELSE
        LET \* TwitterFetcher(): a request is sent only with a token
            h3  == IF p.token THEN Append(h2, Opened("twitter")) ELSE h2
            l3  == IF p.token THEN [l2 EXCEPT !.twitter_health = @ + 1] ELSE l2
            f3  == IF twitter_health(p.token, tw)
                   THEN Append(p2._fetchers,
                               [name |-> "twitter", _client |-> Len(h3)])
                   ELSE p2._fetchers
            \* RedditFetcher()
            h4  == Append(h3, Opened("reddit"))
            l4  == [l3 EXCEPT !.reddit_health = @ + 1]
            f4  == IF reddit_health(rd)
                   THEN Append(f3, [name |-> "reddit", _client |-> Len(h4)])
                   ELSE f3
            p4  == [p2 EXCEPT !._fetchers = f4]
        IN  IF f4 = <<>>
            THEN [pl |-> p4, http |-> h4, log |-> l4,
                  exc |-> <<"No data fetchers available">>]
            ELSE [pl |-> [p4 EXCEPT !._initialized = TRUE], http |-> h4,
                  log |-> l4, exc |-> <<>>]

\* variant: initialize() without the test of line 66
initialize_with_backend(p, h, l, api, tw, rd) ==
    IF p._initialized
    THEN [pl |-> p, http |-> h, log |-> l, exc |-> <<>>]
    ELSE
    LET p1  == [p EXCEPT !._analyzer = TRUE]
        h2  == IF FALSE THEN h ELSE Append(h, Opened("api"))
        p2  == IF FALSE THEN p1 ELSE [p1 EXCEPT !._api_client = Len(h2)]
        l2  == IF FALSE THEN l ELSE [l EXCEPT !.api_health = @ + 1]
    IN  IF TRUE /\ ~api_health(api)
        THEN [pl |-> p2, http |-> h2, log |-> l2,
              exc |-> <<"Backend API is not accessible">>]
        ELSE
        LET \* TwitterFetcher(): a request is sent only with a token
            h3  == IF p.token THEN Append(h2, Opened("twitter")) ELSE h2
            l3  == IF p.token THEN [l2 EXCEPT !.twitter_health = @ + 1] ELSE l2
            f3  == IF twitter_health(p.token, tw)
                   THEN Append(p2._fetchers,
                               [name |-> "twitter", _client |-> Len(h3)])
                   ELSE p2._fetchers
            \* RedditFetcher()
            h4  == Append(h3, Opened("reddit"))
            l4  == [l3 EXCEPT !.reddit_health = @ + 1]
            f4  == IF reddit_health(rd)
                   THEN Append(f3, [name |-> "reddit", _client |-> Len(h4)])
                   ELSE f3
            p4  == [p2 EXCEPT !._fetchers = f4]
        IN  IF f4 = <<>>
            THEN [pl |-> p4, http |-> h4, log |-> l4,
                  exc |-> <<"No data fetchers available">>]
            ELSE [pl |-> [p4 EXCEPT !._initialized = TRUE], http |-> h4,
                  log |-> l4, exc |-> <<>>]

\* Pipeline.initialize, lines 57-89, on pipeline p with open clients h and
\* log l, the three health probes answering api, tw and rd
initialize(p, h, l, api, tw, rd) ==
    IF p._initialized
    THEN [pl |-> p, http |-> h, log |-> l, exc |-> <<>>]
    ELSE
    LET p1  == [p EXCEPT !._analyzer = TRUE]
        h2  == IF p._dry_run THEN h ELSE Append(h, Opened("api"))
        p2  == IF p._dry_run THEN p1 ELSE [p1 EXCEPT !._api_client = Len(h2)]
        l2  == IF p._dry_run THEN l ELSE [l EXCEPT !.api_health = @ + 1]
    IN  IF ~p._dry_run /\ ~api_health(api)
        THEN [pl |-> p2, http |-> h2, log |-> l2,
              exc |-> <<"Backend API is not accessible">>]
        ELSE
        LET \* TwitterFetcher(): a request is sent only with a token
            h3  == IF p.token THEN Append(h2, Opened("twitter")) ELSE h2
            l3  == IF p.token THEN [l2 EXCEPT !.twitter_health = @ + 1] ELSE l2
            f3  == IF twitter_health(p.token, tw)
                   THEN Append(p2._fetchers,
                               [name |-> "twitter", _client |-> Len(h3)])
                   ELSE p2._fetchers
            \* RedditFetcher()
            h4  == Append(h3, Opened("reddit"))
            l4  == [l3 EXCEPT !.reddit_health = @ + 1]
            f4  == IF reddit_health(rd)
                   THEN Append(f3, [name |-> "reddit", _client |-> Len(h4)])
                   ELSE f3
            p4  == [p2 EXCEPT !._fetchers = f4]
        IN  IF f4 = <<>>
            THEN [pl |-> p4, http |-> h4, log |-> l4,
                  exc |-> <<"No data fetchers available">>]
            ELSE [pl |-> [p4 EXCEPT !._initialized = TRUE], http |-> h4,
                  log |-> l4, exc |-> <<>>]

Counters(l) == [l EXCEPT !.init = <<>>, !.calls = 0]

\* the log at the start of a call: the requests are counted per call, the
\* calls over the life of the pipeline
Fresh(l) == [NoLog EXCEPT !.calls = l.calls, !.closes = l.closes]

\* a caller awaits pipeline.initialize()
PipelineInitialize(api, tw, rd) ==
    /\ run.pc = "idle"
    /\ LET r == initialize(pl, http, Fresh(log), api, tw, rd)
       IN  /\ pl' = r.pl
           /\ http' = r.http
           /\ log' = [r.log EXCEPT !.calls = @ + 1,
                         !.init = <<[exc |-> r.exc, ready |-> pl._initialized,
                                     api |-> api, tw |-> tw, rd |-> rd,
                                     before |-> Counters(Fresh(log)),
                                     clients |-> Len(http), pl |-> pl]>>]
    /\ UNCHANGED <<q, ft, store, analyzer, run>>

\* a caller awaits pipeline.run(keyword, limit): lines 104-111
RunBegin(limit, api, tw, rd) ==
    /\ run.pc = "idle"
    /\ LET r == initialize(pl, http, Fresh(log), api, tw, rd)
       IN  /\ pl' = r.pl
           /\ http' = r.http
           /\ log' = [r.log EXCEPT !.calls = @ + 1, !.init = <<>>]
           /\ run' = IF r.exc # <<>>
                     THEN [RunIdle EXCEPT !.pc = "raised", !.limit = limit,
                                          !.exc = r.exc,
                                          !.ready = pl._initialized,
                                          !.before = Counters(Fresh(log)),
                                          !.coll = collection,
                                          !.busy = req[Worker].pc # "idle"]
                     ELSE [RunIdle EXCEPT !.pc = "fetching", !.limit = limit,
                                          !.k = 1,
                                          !.ready = pl._initialized,
                                          !.before = Counters(Fresh(log)),
                                          !.coll = collection,
                                          !.busy = req[Worker].pc # "idle"]
    /\ UNCHANGED <<q, ft, store, analyzer>>

\* fetcher._get_client(): a closed client is replaced by a new one
Reopen(k) ==
    IF http[pl._fetchers[k]._client].open
    THEN [pl |-> pl, http |-> http]
    ELSE [pl |-> [pl EXCEPT !._fetchers[k]._client = Len(http) + 1],
          http |-> Append(http, Opened(pl._fetchers[k].name))]

SendsRequest(k) == pl._fetchers[k].name = "reddit" \/ pl.token

\* lines 112-118: the next retained fetcher returns its posts
RunFetch(posts) ==
    /\ run.pc = "fetching"
    /\ run.k <= Len(pl._fetchers)
    /\ posts \in FetchResults(pl._fetchers[run.k].name, pl.token, run.limit)
    /\ pl' = IF SendsRequest(run.k) THEN Reopen(run.k).pl ELSE pl
    /\ http' = IF SendsRequest(run.k) THEN Reopen(run.k).http ELSE http
    /\ run' = [run EXCEPT !.k = @ + 1, !.all_posts = @ \o posts,
                          !.fetched = Append(@, Len(posts)),
                          !.failed = Append(@, FALSE)]
    /\ log' = [log EXCEPT !.fetch = @ + 1,
                          !.sent = IF SendsRequest(run.k) THEN @ + 1 ELSE @]
    /\ UNCHANGED <<q, main, ft, store, analyzer>>

\* variant: the exception of a fetcher leaves run()
RunFetchAborts ==
    /\ run.pc = "fetching"
    /\ run.k <= Len(pl._fetchers)
    /\ run' = [run EXCEPT !.pc = "raised", !.fetched = Append(@, 0),
                          !.failed = Append(@, TRUE),
                          !.exc = <<"fetch failed">>]
    /\ log' = [log EXCEPT !.fetch = @ + 1]
    /\ UNCHANGED <<q, main, ft, store, analyzer, pl, http>>

\* lines 119-120: the next retained fetcher raises; the error is logged
RunFetchRaises ==
    /\ run.pc = "fetching"
    /\ run.k <= Len(pl._fetchers)
    /\ run' = [run EXCEPT !.k = @ + 1, !.fetched = Append(@, 0),
                          !.failed = Append(@, TRUE)]
    /\ log' = [log EXCEPT !.fetch = @ + 1]
    /\ UNCHANGED <<q, main, ft, store, analyzer, pl, http>>

\* lines 122-126: nothing was fetched
RunNoPosts ==
    /\ run.pc = "fetching"
    /\ run.k > Len(pl._fetchers)
    /\ run.all_posts = <<>>
    /\ run' = [run EXCEPT !.pc = "returned", !.result.fetched = 0]
    /\ UNCHANGED <<q, main, ft, store, analyzer, pl, http, log>>

\* variant: the posts are sent to the backend before the exception leaves
RunClassifyRaisesLate ==
    /\ run.pc = "fetching"
    /\ run.k > Len(pl._fetchers)
    /\ run.all_posts # <<>>
    /\ run' = [run EXCEPT !.pc = "raised",
                          !.result.fetched = Len(run.all_posts),
                          !.exc = <<"classifier failed">>]
    /\ log' = [log EXCEPT !.classify = @ + 1, !.classify_err = @ + 1,
                          !.save = @ + 1]
    /\ UNCHANGED <<q, main, ft, store, analyzer, pl, http>>

\* line 130: the model call fails, the exception leaves run()
RunClassifyRaises ==
    /\ run.pc = "fetching"
    /\ run.k > Len(pl._fetchers)
    /\ run.all_posts # <<>>
    /\ run' = [run EXCEPT !.pc = "raised",
                          !.result.fetched = Len(run.all_posts),
                          !.exc = <<"classifier failed">>]
    /\ log' = [log EXCEPT !.classify = @ + 1, !.classify_err = @ + 1]
    /\ UNCHANGED <<q, main, ft, store, analyzer, pl, http>>

\* variant: run() reports the posts it asked for, not the outcome of the save
RunSavedAllCreated ==
    /\ run.pc = "saving"
    /\ req[Worker].pc = "done"
    /\ run' = [run EXCEPT !.pc = "returned",
                          !.result.created = run.result.analyzed,
                          !.result.skipped = 0,
                          !.response = <<[created_count |-> req[Worker].created_count,
                                          skipped_count |-> req[Worker].skipped_count]>>]
    /\ req' = [req EXCEPT ![Worker] = Idle]
    /\ UNCHANGED <<q, main, ft, collection, now, analyzer, pl, http, log>>

\* lines 128-157 up to the await of save_batch; delivered tells whether the
\* POST reaches the backend
RunClassify(delivered) ==
    /\ run.pc = "fetching"
    /\ run.k > Len(pl._fetchers)
    /\ run.all_posts # <<>>
    /\ LET texts   == [k \in 1..Len(run.all_posts) |-> run.all_posts[k].text]
           results == analyze_batch(texts)
           r1      == [run EXCEPT !.result.fetched = Len(run.all_posts),
                                  !.analysis_results = results,
                                  !.result.analyzed = Len(results)]
           records == save_batch_records(run.all_posts, results)
       IN  IF pl._dry_run
           THEN /\ run' = [r1 EXCEPT !.pc = "returned",
                                     !.result.created = Len(results)]
                /\ log' = [log EXCEPT !.classify = @ + 1]
                /\ UNCHANGED req
           ELSE IF Len(run.all_posts) # Len(results)
           THEN /\ run' = [r1 EXCEPT !.pc = "raised",
                              !.exc = <<"Posts and results must have the same length">>]
                /\ log' = [log EXCEPT !.classify = @ + 1]
                /\ UNCHANGED req
           ELSE IF ~http[pl._api_client].open
           THEN /\ run' = [r1 EXCEPT !.pc = "raised",
                                     !.exc = <<"client has been closed">>]
                /\ log' = [log EXCEPT !.classify = @ + 1, !.save_err = @ + 1]
                /\ UNCHANGED req
           ELSE IF ~delivered
           THEN /\ run' = [r1 EXCEPT !.pc = "raised",
                                     !.exc = <<"request failed">>]
                /\ log' = [log EXCEPT !.classify = @ + 1, !.save = @ + 1,
                                      !.save_err = @ + 1]
                /\ UNCHANGED req
           ELSE IF BatchRouteStatus(records) # 200
           THEN /\ run' = [r1 EXCEPT !.pc = "raised", !.exc = <<"HTTP 422">>]
                /\ log' = [log EXCEPT !.classify = @ + 1, !.save = @ + 1,
                                      !.save_err = @ + 1]
                /\ UNCHANGED req
           ELSE /\ req[Worker].pc = "idle"
                /\ run' = [r1 EXCEPT !.pc = "saving"]
                /\ log' = [log EXCEPT !.classify = @ + 1, !.save = @ + 1]
                /\ req' = [req EXCEPT ![Worker] =
                             [Idle EXCEPT !.pc = "checking",
                                          !.op = "create_batch",
                                          !.records = records, !.i = 1,
                                          !.before = collection]]
    /\ UNCHANGED <<q, main, ft, collection, now, analyzer, pl, http>>

\* a caller other than run() awaits api_client.save_batch(posts, results)
\* on the client of the pipeline; an accepted request is served by the
\* backend
SaveBatchCall(posts, results, delivered) ==
    /\ run.pc = "idle"
    /\ pl._api_client # 0
    /\ req[Worker].pc = "idle"
    /\ LET call == save_batch(posts, results, http[pl._api_client].open,
                              delivered)
       IN  /\ log' = [Fresh(log) EXCEPT
                         !.save = IF call.sent THEN 1 ELSE 0,
                         !.save_err = IF call.exc # <<>> THEN 1 ELSE 0,
                         !.save_call = <<call>>]
           /\ req' = IF call.sent /\ call.exc = <<>>
                     THEN [req EXCEPT ![Worker] =
                             [Idle EXCEPT !.pc = "checking",
                                          !.op = "create_batch",
                                          !.records = call.records, !.i = 1,
                                          !.before = collection]]
                     ELSE req
    /\ UNCHANGED <<q, main, ft, collection, now, analyzer, pl, http, run>>

\* lines 150-154: the response of the backend arrives
RunSaved ==
    /\ run.pc = "saving"
    /\ req[Worker].pc = "done"
    /\ run' = [run EXCEPT !.pc = "returned",
                          !.result.created = req[Worker].created_count,
                          !.result.skipped = req[Worker].skipped_count,
                          !.response = <<[created_count |-> req[Worker].created_count,
                                          skipped_count |-> req[Worker].skipped_count]>>]
    /\ req' = [req EXCEPT ![Worker] = Idle]
    /\ UNCHANGED <<q, main, ft, collection, now, analyzer, pl, http, log>>

\* variant: the error of save_batch is logged and run() returns its result
RunSaveSwallowed ==
    /\ run.pc = "saving"
    /\ run' = [run EXCEPT !.pc = "returned"]
    /\ log' = [log EXCEPT !.save_err = @ + 1]
    /\ UNCHANGED <<q, main, ft, store, analyzer, pl, http>>

\* lines 155-157: the request times out or the response is an error; the
\* backend goes on with whatever it has begun
RunSaveFails ==
    /\ run.pc = "saving"
    /\ run' = [run EXCEPT !.pc = "raised", !.exc = <<"request failed">>]
    /\ log' = [log EXCEPT !.save_err = @ + 1]
    /\ UNCHANGED <<q, main, ft, store, analyzer, pl, http>>

\* the caller of run() takes the result or the exception
RunReturn ==
    /\ run.pc \in {"returned", "raised"}
    /\ run' = RunIdle
    /\ UNCHANGED <<q, ft, store, analyzer, pl, http, log>>

\* variant: close() without the test of line 172
close_unguarded(p, h) ==
    LET h1 == [j \in 1..Len(h) |->
                 IF \E k \in 1..Len(p._fetchers) : p._fetchers[k]._client = j
                 THEN [h[j] EXCEPT !.open = FALSE]
                 ELSE h[j]]
    IN  IF p._api_client # 0
        THEN [http |-> [h1 EXCEPT ![p._api_client].open = FALSE], exc |-> <<>>]
        ELSE [http |-> h1,
              exc |-> <<"'NoneType' object has no attribute 'close'">>]

\* Pipeline.close: fetcher.close() of every retained fetcher closes its
\* client if it is open; the API client, if there is one, is closed
close(p, h) ==
    LET h1 == [j \in 1..Len(h) |->
                 IF \E k \in 1..Len(p._fetchers) : p._fetchers[k]._client = j
                 THEN [h[j] EXCEPT !.open = FALSE]
                 ELSE h[j]]
    IN  IF p._api_client # 0
        THEN [http |-> [h1 EXCEPT ![p._api_client].open = FALSE], exc |-> <<>>]
        ELSE [http |-> h1, exc |-> <<>>]

\* a caller awaits pipeline.close()
PipelineClose ==
    /\ run.pc = "idle"
    /\ LET r == close(pl, http)
       IN  /\ http' = r.http
           /\ log' = [Fresh(log) EXCEPT !.closes = @ + 1,
                         !.close = <<[exc |-> r.exc, before |-> http,
                                      ready |-> pl._initialized]>>]
    /\ UNCHANGED <<q, ft, store, analyzer, pl, run>>

(***************************************************************************)
(* The backend alone: clients of SentimentService.                         *)
(***************************************************************************)
\* the analyzer is not part of the backend process
InitNoAnalyzer ==
    /\ classifier = <<>>
    /\ an = NoCalls

\* no worker runs beside the backend
InitNoWorker ==
    /\ pl = NewPipeline(FALSE, FALSE)
    /\ http = <<>>
    /\ run = RunIdle
    /\ log = NoLog
    /\ main = MainOff
    /\ ft = FetchIdle
    /\ q = QueryIdle

Init ==
    /\ collection = <<>>
    /\ now = 0
    /\ req = [c \in Callers |-> Idle]
    /\ InitNoAnalyzer
    /\ InitNoWorker

\* the collection is kept within cap documents
StoreNext(C, P, B, cap) ==
    \/ \E c \in C : \E data \in P : Len(collection) < cap /\ Create(c, data)
    \/ \E c \in C : \E records \in B : BatchBegin(c, records)
    \/ \E c \in C : BatchFindOne(c)
    \/ \E c \in C : BatchInsert(c) /\ Len(collection') <= cap
    \/ \E c \in C : Return(c)

\* clients call the service concurrently
Next == StoreNext(Clients, SmallPool, SmallBatches, MaxRace)

Spec == Init /\ [][Next]_vars

\* one client, one call at a time
InitSeq ==
    /\ collection = <<>>
    /\ now = 0
    /\ req = [c \in Callers |-> Idle]
    /\ InitNoAnalyzer
    /\ InitNoWorker

NextSeq ==
    \/ StoreNext({"c1"}, FullPool, FullBatches, MaxStore)
    \/ BatchResubmit("c1")

SpecSeq == InitSeq /\ [][NextSeq]_vars

(***************************************************************************)
(* The analyzer alone.                                                     *)
(***************************************************************************)
InitAnalyzer ==
    /\ collection = <<>> /\ now = 0 /\ req = [c \in Callers |-> Idle]
    /\ classifier \in [TextPool -> ModelOutputs]
    /\ an = NoCalls
    /\ InitNoWorker

NextAnalyzer ==
    \/ \E raw \in RawOutputs : MapResult(raw)
    \/ \E text \in TextPool : Analyze(text)
    \/ \E texts \in SeqsUpTo(TextPool, MaxTexts) : AnalyzeBatch(texts)
    \/ AnalyzerReturn

SpecAnalyzer == InitAnalyzer /\ [][NextAnalyzer]_vars

(***************************************************************************)
(* The worker's pipeline against the backend.                              *)
(***************************************************************************)
Limits == {1, 100}

\* the model the pipeline has loaded
PipelineModel ==
    [t \in PostTexts |-> IF Len(t) = 4 THEN [label |-> "POSITIVE", score |-> 95]
                         ELSE IF Len(t) < 10
                         THEN [label |-> "NEGATIVE", score |-> 80]
                         ELSE [label |-> "POSITIVE", score |-> 55]]

\* the answers of the backend, Twitter and Reddit to a health probe
ApiAnswers     == {200, 500}
TwitterAnswers == {200, 401}
RedditAnswers  == {0, 429}

\* the answers of a quiet keyword
FeedPrefixes ==
    {SubSeq(Feed(name), 1, n) : name \in {"twitter", "reddit"}, n \in 0..3}

\* the store is empty or holds one record that an earlier create left
InitPipeline ==
    /\ collection \in {<<>>, <<Doc(1, CandTw1, 0)>>}
    /\ now = 0 /\ req = [c \in Callers |-> Idle]
    /\ classifier = PipelineModel
    /\ an = NoCalls
    /\ \E dry_run, token \in BOOLEAN : pl = NewPipeline(dry_run, token)
    /\ http = <<>>
    /\ run = RunIdle
    /\ log = NoLog
    /\ main = MainOff
    /\ ft = FetchIdle
    /\ q = QueryIdle

\* callers other than main() use the pipeline; MaxCalls bounds their calls
NextPipeline ==
    \/ \E api \in ApiAnswers, tw \in TwitterAnswers, rd \in RedditAnswers :
          /\ log.calls + log.closes < MaxCalls
          /\ PipelineInitialize(api, tw, rd)
          /\ UNCHANGED main
    \/ \E limit \in Limits :
          \E api \in ApiAnswers, tw \in TwitterAnswers, rd \in RedditAnswers :
             /\ log.calls + log.closes < MaxCalls
             /\ RunBegin(limit, api, tw, rd)
             /\ UNCHANGED main
    \/ \E posts \in FeedPrefixes : RunFetch(posts)
    \/ RunFetchRaises
    \/ RunNoPosts
    \/ RunClassifyRaises
    \/ \E delivered \in BOOLEAN : RunClassify(delivered)
    \/ RunSaved
    \/ RunSaveFails
    \/ RunReturn /\ UNCHANGED main
    \/ log.calls + log.closes < MaxCalls /\ PipelineClose /\ UNCHANGED main
    \/ BatchFindOne(Worker)
    \/ BatchInsert(Worker) /\ Len(collection') <= MaxPipe
    \/ run.pc # "saving" /\ Return(Worker)

SpecPipeline == InitPipeline /\ [][NextPipeline]_vars

(***************************************************************************)
(* main() of the worker (src/worker/main.py) and other callers of a        *)
(* pipeline.                                                               *)
(***************************************************************************)
\* line 82: await pipeline.initialize(); an exception goes to line 96
MainInitialize(api, tw, rd) ==
    /\ main.pc = "start"
    /\ PipelineInitialize(api, tw, rd)
    /\ main' = IF log'.init[1].exc # <<>>
               THEN [main EXCEPT !.pc = "closing", !.init = "raised",
                                 !.exit = <<1>>]
               ELSE [main EXCEPT !.pc = "run", !.init = "ok"]

\* line 83: await pipeline.run(args.keyword, args.limit)
MainRun(limit, api, tw, rd) ==
    /\ main.pc = "run"
    /\ RunBegin(limit, api, tw, rd)
    /\ main' = [main EXCEPT !.pc = "awaiting"]

\* lines 85-98: the summary and return 0, or the handler and return 1
MainResult ==
    /\ main.pc = "awaiting"
    /\ RunReturn
    /\ main' = IF run.pc = "returned"
               THEN [main EXCEPT !.pc = "closing", !.run = "ok", !.exit = <<0>>,
                                 !.save_failed = log.save_err > 0]
               ELSE [main EXCEPT !.pc = "closing", !.run = "raised",
                                 !.exit = <<1>>,
                                 !.save_failed = log.save_err > 0]

\* lines 100-101: finally: await pipeline.close(); an exception of close()
\* takes the place of the exit status
MainClose ==
    /\ main.pc = "closing"
    /\ PipelineClose
    /\ main' = IF log'.close[1].exc # <<>>
               THEN [main EXCEPT !.pc = "exited", !.close = "raised",
                                 !.exit = <<>>]
               ELSE [main EXCEPT !.pc = "exited", !.close = "ok"]

\* args.limit: the callers ask for one post of each source
MainLimits == {1}

\* the pipeline is driven by main() or by another caller
InitLifecycle ==
    /\ collection = <<>>
    /\ now = 0 /\ req = [c \in Callers |-> Idle]
    /\ classifier = PipelineModel
    /\ an = NoCalls
    /\ \E dry_run, token \in BOOLEAN : pl = NewPipeline(dry_run, token)
    /\ http = <<>>
    /\ run = RunIdle
    /\ log = NoLog
    /\ main \in {MainOff, MainStart}
    /\ ft = FetchIdle
    /\ q = QueryIdle

NextLifecycle ==
    \/ \E api \in ApiAnswers, tw \in TwitterAnswers, rd \in RedditAnswers :
          MainInitialize(api, tw, rd)
    \/ \E limit \in MainLimits :
          \E api \in ApiAnswers, tw \in TwitterAnswers, rd \in RedditAnswers :
             MainRun(limit, api, tw, rd)
    \/ MainResult
    \/ MainClose
    \/ \E api \in ApiAnswers, tw \in TwitterAnswers, rd \in RedditAnswers :
          /\ main.pc = "off" /\ log.calls < MaxCalls
          /\ PipelineInitialize(api, tw, rd)
          /\ UNCHANGED main
    \/ \E limit \in MainLimits :
          \E api \in ApiAnswers, tw \in TwitterAnswers, rd \in RedditAnswers :
             /\ main.pc = "off" /\ log.calls < MaxCalls
             /\ RunBegin(limit, api, tw, rd)
             /\ UNCHANGED main
    \/ main.pc = "off" /\ RunReturn /\ UNCHANGED main
    \/ main.pc = "off" /\ log.closes < MaxClose /\ PipelineClose
          /\ UNCHANGED main
    \/ \E posts \in FeedPrefixes : RunFetch(posts)
    \/ RunFetchRaises
    \/ RunNoPosts
    \/ RunClassifyRaises
    \/ \E delivered \in BOOLEAN : RunClassify(delivered)
    \/ RunSaved
    \/ RunSaveFails
    \/ BatchFindOne(Worker)
    \/ BatchInsert(Worker) /\ Len(collection') <= MaxPipe
    \/ run.pc # "saving" /\ Return(Worker)

SpecLifecycle == InitLifecycle /\ [][NextLifecycle]_vars

(***************************************************************************)
(* The fetchers alone, against sources that answer as they please.         *)
(***************************************************************************)
\* what a search may list: posts, a short one and a malformed element
TwitterItems == {<<>>, <<PostT1>>, <<PostT1, PostT2>>,
                 <<PostT1, Malformed, PostT2>>, <<Malformed>>}

RedditItems == {<<>>, <<PostR1>>, <<PostR1, PostR2>>,
                <<PostR1, Malformed, PostR2>>,
                <<PostR1, [PostR2 EXCEPT !.text = Repeat("s", 9)], PostR3>>}

ErrorStatuses == {0, 429, 401, 500}

Responses(name) ==
    {Response(st, FALSE, FALSE, <<>>) : st \in ErrorStatuses}
    \cup {Response(200, FALSE, FALSE, <<>>), Response(200, TRUE, FALSE, <<>>)}
    \cup {Response(200, TRUE, TRUE, items) :
            items \in IF name = "twitter" THEN TwitterItems ELSE RedditItems}

ProbeStatuses == {0, 200, 401, 403, 429, 500}

InitFetch ==
    /\ collection = <<>>
    /\ now = 0 /\ req = [c \in Callers |-> Idle]
    /\ InitNoAnalyzer
    /\ \E dry_run, token \in BOOLEAN : pl = NewPipeline(dry_run, token)
    /\ http = <<>>
    /\ run = RunIdle
    /\ log = NoLog
    /\ main = MainOff
    /\ ft = FetchIdle
    /\ q = QueryIdle

NextFetch ==
    \/ \E name \in {"twitter", "reddit"}, token \in BOOLEAN, limit \in Limits :
          FetchBegin(name, token, limit)
    \/ \E resp \in Responses(ft.name) : FetchResponse(resp)
    \/ \E name \in {"twitter", "reddit"}, token \in BOOLEAN :
          \E status \in ProbeStatuses : HealthCheck(name, token, status)
    \/ FetchReturn
    \/ \E api \in ApiAnswers, tw \in TwitterAnswers, rd \in RedditAnswers :
          /\ log.calls < MaxCalls
          /\ PipelineInitialize(api, tw, rd)
          /\ UNCHANGED main

SpecFetch == InitFetch /\ [][NextFetch]_vars

(***************************************************************************)
(* The backend serving reads beside writes: one client writes, one reads;  *)
(* a create may land between the two queries of a list request.            *)
(***************************************************************************)
T1 == datetime(2024, 1, 1, 10)     \* Monday, ISO week 1 of 2024
T2 == datetime(2024, 12, 29, 23)   \* Sunday, ISO week 52 of 2024
T3 == datetime(2024, 12, 30, 0)    \* Monday, ISO week 1 of 2025
Instants == {T1, T2, T3}

QueryPool    == {CandTw1, CandRd1, CandNone}
QueryBatches == {<<CandTw1, CandRd1>>, <<CandNone, CandNone>>}

Pages      == {1, 2, 3}
PageLimits == {None, Some(2)}

Filters ==
    {SentimentFilter(None, None, None, None),
     SentimentFilter(Some("positive"), Some("twitter"), None, None),
     SentimentFilter(None, Some(""), None, None),
     SentimentFilter(None, None, Some(T2), Some(T2))}

\* the list requests: every page and limit without a filter, every filter
\* on the first pages of two
ListRequests ==
    {<<page, limit, SentimentFilter(None, None, None, None)>> :
        page \in Pages, limit \in PageLimits}
    \cup {<<page, Some(2), filters>> : page \in {1, 2}, filters \in Filters}

IdInputs == {oid_str(1), oid_str(2), oid_str(9), <<"1">>, Repeat("g", 24)}

Granularities == {"hour", "day", "week", "month"}
Ranges        == {<<None, None>>, <<Some(T2), Some(T2)>>, <<None, Some(T2)>>}

InitQuery ==
    /\ collection = <<>>
    /\ now = T1
    /\ req = [c \in Callers |-> Idle]
    /\ InitNoAnalyzer
    /\ InitNoWorker

Writing == req["c1"].pc # "idle"

NextQuery ==
    \/ \E t \in Instants :
          q.pc = "idle" /\ ~Writing /\ Len(collection) < MaxDocs /\ Tick(t)
    \/ \E data \in QueryPool :
          q.pc = "idle" /\ Len(collection) < MaxDocs /\ Create("c1", data)
    \/ q.pc = "counted" /\ Len(collection) < MaxDocs /\ Create("c1", CandTw1)
    \/ \E records \in QueryBatches : q.pc = "idle" /\ BatchBegin("c1", records)
    \/ q.pc = "idle" /\ BatchFindOne("c1")
    \/ q.pc = "idle" /\ BatchInsert("c1") /\ Len(collection') <= MaxDocs
    \/ Return("c1")
    \/ \E request \in ListRequests :
          ~Writing /\ ListCount(request[1], request[2], request[3])
    \/ ListFind
    \/ ~Writing /\ ListNextPage
    \/ \E sentiment_id \in IdInputs : ~Writing /\ GetById(sentiment_id)
    \/ /\ req["c1"].pc = "done" /\ req["c1"].op = "create"
       /\ GetById(oid_str(req["c1"].ret[1].id))
    \/ ~Writing /\ GetSummary
    \/ \E range \in Ranges, granularity \in Granularities :
          ~Writing /\ GetTimeline(range[1], range[2], granularity)
    \/ QueryReturn

SpecQuery == InitQuery /\ [][NextQuery]_vars

(***************************************************************************)
(* Properties of the store.                                                *)
(***************************************************************************)
DoneBatch(c) == req[c].pc = "done" /\ req[c].op = "create_batch"

Stored(coll, r) == \E k \in 1..Len(coll) : Key(coll[k]) = Key(r)

Count(seq, Test(_)) == Cardinality({k \in 1..Len(seq) : Test(seq[k])})

\* the documents a finished call appended
OwnDocs(c) == SubSeq(collection, req[c].insertLen + 1,
                     req[c].insertLen + req[c].created_count)

SameFields(doc, r) ==
    /\ doc.text = r.text /\ doc.sentiment = r.sentiment /\ doc.score = r.score
    /\ doc.source = r.source /\ doc.source_id = r.source_id

\* C1: after create and create_batch calls executed one at a time, no two
\* stored records share a (source, source_id) pair with a present source_id.
C1_UniquePairs ==
    \A j, k \in 1..Len(collection) :
        (j # k /\ HasId(collection[j]) /\ Key(collection[j]) = Key(collection[k]))
            => FALSE

\* C2: a batch of id-bearing candidates with no pair stored yet is created in
\* full (created_count = len, skipped_count = 0); the same batch submitted
\* again at once is skipped in full (created_count = 0, skipped_count = len)
\* and the collection stays as the first call left it.
FreshBatch(records, coll) ==
    \A k \in 1..Len(records) : HasId(records[k]) /\ ~Stored(coll, records[k])

C2_Idempotent ==
    \A c \in Clients :
        (/\ DoneBatch(c)
         /\ req[c].first # <<>>
         /\ FreshBatch(req[c].records, req[c].first[1].before))
        => /\ req[c].first[1].created_count = Len(req[c].records)
           /\ req[c].first[1].skipped_count = 0
           /\ req[c].created_count = 0
           /\ req[c].skipped_count = Len(req[c].records)
           /\ collection = req[c].first[1].after
           /\ Len(collection) =
                Len(req[c].first[1].before) + Len(req[c].records)

C2_Witness ==
    \E c \in Clients :
        /\ DoneBatch(c)
        /\ req[c].first # <<>>
        /\ Len(req[c].records) = 2
        /\ req[c].first[1].before # <<>>
        /\ FreshBatch(req[c].records, req[c].first[1].before)

\* C3: when two concurrent create_batch calls carry the same id-bearing
\* candidate and the existence check of each found nothing, both calls insert
\* it and count it as created: the pair is stored at least twice and neither
\* call counts it as skipped.
Misses(c, r) ==
    /\ DoneBatch(c)
    /\ \E k \in 1..Len(req[c].records) : req[c].records[k] = r
    /\ HasId(r)
    /\ Key(r) \notin req[c].existing_ids

Inserted(c, r) ==
    \E k \in 1..Len(OwnDocs(c)) : SameFields(OwnDocs(c)[k], r)

C3_RaceDuplicates ==
    \A c, d \in Clients : \A r \in FullPool :
        (c # d /\ Misses(c, r) /\ Misses(d, r))
        => /\ Inserted(c, r) /\ Inserted(d, r)
           /\ req[c].created_count >= 1 /\ req[d].created_count >= 1
           /\ req[c].created_count + req[c].skipped_count = Len(req[c].records)
           /\ req[d].created_count + req[d].skipped_count = Len(req[d].records)
           /\ Cardinality({k \in 1..Len(collection) :
                             Key(collection[k]) = Key(r)}) >= 2

C3_Witness ==
    \E c, d \in Clients : \E r \in FullPool :
        /\ c # d /\ Misses(c, r) /\ Misses(d, r)
        /\ ~Stored(req[c].before, r) /\ ~Stored(req[d].before, r)
        /\ Cardinality({k \in 1..Len(collection) :
                          Key(collection[k]) = Key(r)}) = 2

\* C4: create_batch never skips a candidate whose source_id is absent or
\* empty: each submission of one, in one call or in successive calls, stores
\* its own record, and skipped_count counts id-bearing candidates only.
AbsentOrEmpty(r) == r.source_id = None \/ r.source_id = Some("")

Present(r) == ~AbsentOrEmpty(r)

C4_NoIdNeverSkipped ==
    \A c \in Clients :
        DoneBatch(c) =>
            LET noId == SelectSeq(req[c].records, AbsentOrEmpty)
                own  == OwnDocs(c)
                base == Len(own) - Len(noId)
            IN  /\ base >= 0
                /\ \A k \in 1..Len(noId) : SameFields(own[base + k], noId[k])
                /\ req[c].skipped_count <= Count(req[c].records, Present)
                /\ \A j, k \in 1..Len(collection) :
                      j # k => collection[j]._id # collection[k]._id
                /\ req[c].first # <<>> =>
                      Len(collection) >=
                          Len(req[c].first[1].before) + 2 * Len(noId)

C4_Witness ==
    \E c \in Clients :
        /\ DoneBatch(c)
        /\ req[c].first # <<>>
        /\ \E k \in 1..Len(req[c].records) : req[c].records[k].source_id = None
        /\ \E k \in 1..Len(req[c].records) : req[c].records[k].source_id = Some("")
        /\ req[c].skipped_count = 0

\* C5 as stated: created_count + skipped_count is the number of candidates,
\* the collection grows by exactly created_count during the call, and
\* skipped_count is the number of id-bearing candidates whose pair was
\* stored when the call began.
PreStored(records, coll) ==
    Cardinality({k \in 1..Len(records) :
                    HasId(records[k]) /\ Stored(coll, records[k])})

C5_CountsAsStated ==
    \A c \in Clients :
        DoneBatch(c) =>
            /\ req[c].created_count + req[c].skipped_count = Len(req[c].records)
            /\ req[c].afterLen = Len(req[c].before) + req[c].created_count
            /\ req[c].skipped_count = PreStored(req[c].records, req[c].before)

\* C5 amended: created_count + skipped_count is the number of candidates and
\* the call itself inserts exactly created_count records (the candidates it
\* did not skip); when no other write lands during the call, the collection
\* grows by exactly created_count and skipped_count is the number of
\* id-bearing candidates whose pair was stored when the call began.
C5_Counts ==
    \A c \in Clients :
        DoneBatch(c) =>
            /\ req[c].created_count + req[c].skipped_count = Len(req[c].records)
            /\ req[c].afterLen = req[c].insertLen + req[c].created_count
            /\ req[c].afterLen <= Len(collection)
            /\ \A k \in 1..Len(OwnDocs(c)) :
                  \E j \in 1..Len(req[c].records) :
                      SameFields(OwnDocs(c)[k], req[c].records[j])
            /\ req[c].insertLen = Len(req[c].before) =>
                  /\ req[c].afterLen = Len(req[c].before) + req[c].created_count
                  /\ req[c].skipped_count =
                        PreStored(req[c].records, req[c].before)

C5_Witness ==
    \E c \in Clients :
        /\ DoneBatch(c)
        /\ req[c].insertLen = Len(req[c].before)
        /\ req[c].skipped_count = 2
        /\ \E d \in Clients :
              /\ d # c /\ DoneBatch(d)
              /\ req[d].insertLen > Len(req[d].before)
              /\ req[d].skipped_count >= 1 /\ req[d].created_count >= 1
(***************************************************************************)
(* Properties of the analyzer.                                             *)
(***************************************************************************)
\* C6: a raw score below 0.6 yields neutral whatever the raw label; a raw
\* score of 0.6 or more yields positive for the raw label POSITIVE and
\* negative otherwise; the score is returned unchanged.
Verdict(raw, out) ==
    /\ out.score = raw.score
    /\ raw.score < 60 => out.label = "neutral"
    /\ (raw.score >= 60 /\ raw.label = "POSITIVE") => out.label = "positive"
    /\ (raw.score >= 60 /\ raw.label # "POSITIVE") => out.label = "negative"

C6_Threshold ==
    (an.pc = "done" /\ an.op = "_map_result")
        => Verdict(an.input[1], an.output[1])

C6_Witness ==
    /\ an.pc = "done" /\ an.op = "_map_result"
    /\ an.input[1] = [label |-> "POSITIVE", score |-> 60]
    /\ an.output[1].label = "positive"

\* C7: analyze_batch returns one result per input text, in input order,
\* result k being the thresholded verdict of the model on the first 512
\* characters of text k, the verdict analyze gives for text k; an empty
\* input returns an empty list and the model is not invoked.
First512(text) ==
    [j \in 1..(IF Len(text) <= 512 THEN Len(text) ELSE 512) |-> text[j]]

C7_BatchPositional ==
    (an.pc = "done" /\ an.op = "analyze_batch")
        => /\ Len(an.output) = Len(an.input)
           /\ \A k \in 1..Len(an.input) :
                 /\ Verdict(classifier[First512(an.input[k])], an.output[k])
                 /\ an.output[k] = analyze(an.input[k])
           /\ an.input = <<>> => (an.output = <<>> /\ an.calls = 0)
           /\ an.input # <<>> => an.calls = 1

C7_Witness ==
    /\ an.pc = "done" /\ an.op = "analyze_batch"
    /\ an.input = <<TextLongX, TextShort>>
    /\ classifier[TextLongX] # classifier[TextExact]
    /\ an.output[1] # an.output[2]
(***************************************************************************)
(* Properties of the pipeline.                                             *)
(***************************************************************************)
RECURSIVE Sum(_)
Sum(seq) == IF seq = <<>> THEN 0 ELSE Head(seq) + Sum(Tail(seq))

\* C8: a run that is not a dry run and in which classification and
\* persistence succeed reports fetched = the posts returned by the retained
\* fetchers that did not raise, analyzed = fetched, and created and skipped as
\* the backend's batch-create answered, which add up to analyzed.
C8_RunCounts ==
    (run.pc = "returned" /\ ~pl._dry_run)
        => /\ run.result.fetched = Sum(run.fetched)
           /\ run.result.analyzed = run.result.fetched
           /\ run.result.fetched > 0 =>
                 /\ run.response # <<>>
                 /\ run.result.created = run.response[1].created_count
                 /\ run.result.skipped = run.response[1].skipped_count
           /\ run.result.created + run.result.skipped = run.result.analyzed
           /\ Len(run.all_posts) = run.result.fetched
           /\ Len(run.fetched) = Len(pl._fetchers)

\* two posts of Twitter, one of them stored before, and three new posts of
\* Reddit: fetched=5, analyzed=5, created=4, skipped=1
C8_Witness ==
    /\ run.pc = "returned" /\ ~pl._dry_run
    /\ run.fetched = <<2, 3>>
    /\ run.result = PipelineResult(5, 5, 4, 1)
    /\ Len(collection) = 5

\* C9: initialize() raises and leaves the pipeline uninitialized when no
\* fetcher reports healthy, and, outside dry-run mode, when the backend health
\* check fails; in the latter case no fetcher is probed, created or retained.
InitReturned == log.init # <<>> /\ ~log.init[1].ready

BackendFails == ~pl._dry_run /\ log.init[1].api # 200

NoFetcherHealthy ==
    /\ ~(pl.token /\ log.init[1].tw \in {200, 429})
    /\ log.init[1].rd \notin {200, 429}

C9_InitializeFails ==
    InitReturned =>
        /\ BackendFails =>
              /\ log.init[1].exc # <<>>
              /\ ~pl._initialized
              /\ pl._fetchers = <<>>
              /\ log.twitter_health = log.init[1].before.twitter_health
              /\ log.reddit_health = log.init[1].before.reddit_health
              /\ \A j \in (log.init[1].clients + 1)..Len(http) :
                    http[j].owner = "api"
        /\ NoFetcherHealthy =>
              /\ log.init[1].exc # <<>>
              /\ ~pl._initialized
              /\ pl._fetchers = <<>>

C9_Witness ==
    /\ InitReturned
    /\ BackendFails
    /\ pl.token /\ log.init[1].tw = 200 /\ log.init[1].rd = 429
    /\ log.init[1].exc = <<"Backend API is not accessible">>
    /\ log.api_health = 1

\* C10: run() on a pipeline whose initialize() has not succeeded raises and
\* performs no health check, fetch, classification or persistence.
C10_RunRequiresReady ==
    (run.pc # "idle" /\ ~run.ready)
        => /\ run.pc = "raised"
           /\ Counters(log) = run.before
(***************************************************************************)
(* Properties of the pipeline's lifecycle and of main().                   *)
(***************************************************************************)
\* C11: once close() has been called the pipeline stays Closed: a run() begun
\* on an initialized pipeline after a close() sends no fetch request and no
\* persistence request.
C11_ClosedStaysClosed ==
    (run.pc # "idle" /\ run.ready /\ run.before.closes > 0)
        => /\ log.sent = 0
           /\ log.save = 0

\* C12: after one successful initialize() a further initialize() is a no-op:
\* it raises nothing, sends no health check, opens no client and leaves the
\* pipeline, with its retained fetchers, as it was; no source is retained
\* twice.
C12_InitializeIdempotent ==
    /\ (log.init # <<>> /\ log.init[1].ready)
          => /\ log.init[1].exc = <<>>
             /\ Counters(log) = log.init[1].before
             /\ Len(http) = log.init[1].clients
             /\ pl = log.init[1].pl
    /\ \A j, k \in 1..Len(pl._fetchers) :
          j # k => pl._fetchers[j].name # pl._fetchers[k].name

\* the second initialize() comes while the backend is down
C12_Witness ==
    /\ log.init # <<>> /\ log.init[1].ready
    /\ log.init[1].api = 500
    /\ ~pl._dry_run
    /\ Len(pl._fetchers) = 2

\* C13: when the fetch of a retained fetcher raises, run() does not abort:
\* every retained fetcher is still queried, the failing source counts zero
\* posts, and the posts of the others are accumulated, classified and, outside
\* dry-run mode, persisted.
SomeFetchFailed ==
    run.pc # "idle" /\ \E k \in 1..Len(run.failed) : run.failed[k]

C13_FetchFailureSkipped ==
    SomeFetchFailed =>
        /\ \A k \in 1..Len(run.failed) : run.failed[k] => run.fetched[k] = 0
        /\ Len(run.all_posts) = Sum(run.fetched)
        /\ run.pc # "fetching" => Len(run.fetched) = Len(pl._fetchers)
        /\ run.pc = "raised" => log.classify = 1
        /\ run.pc \in {"saving", "returned"} =>
              /\ run.result.fetched = Len(run.all_posts)
              /\ Len(run.analysis_results) = Len(run.all_posts)
        /\ (run.pc = "returned" /\ ~pl._dry_run /\ run.all_posts # <<>>) =>
              /\ run.response # <<>>
              /\ run.result.created + run.result.skipped = Len(run.all_posts)

\* Twitter's fetch raised, the three posts of Reddit were stored
C13_Witness ==
    /\ run.pc = "returned" /\ ~pl._dry_run
    /\ run.failed = <<TRUE, FALSE>>
    /\ run.result = PipelineResult(3, 3, 3, 0)
    /\ Len(collection) >= 3

\* C14: when the batch classification raises during run(), the exception
\* reaches the caller of run() and the run sends no save_batch request: the
\* collection is as it was when the run began (unless a request of an earlier
\* run was still being served then).
C14_ClassificationFatal ==
    (run.pc # "idle" /\ log.classify_err > 0)
        => /\ run.pc = "raised"
           /\ run.exc # <<>>
           /\ log.save = 0
           /\ log.save_err = 0
           /\ run.response = <<>>
           /\ ~run.busy => (collection = run.coll /\ req[Worker].pc = "idle")

C14_Witness ==
    /\ run.pc = "raised" /\ log.classify_err = 1
    /\ ~pl._dry_run
    /\ Len(run.all_posts) = 5
    /\ ~run.busy
    /\ run.coll # <<>>

\* C15: when save_batch raises in a run that is not a dry run, run() raises
\* instead of returning a result and main() returns 1; main() returns 0 only
\* when initialize() and run() both completed without raising.
C15_SaveFailureExit ==
    /\ (run.pc # "idle" /\ log.save_err > 0)
          => /\ ~pl._dry_run
             /\ run.pc = "raised"
             /\ run.exc # <<>>
    /\ (main.pc \in {"closing", "exited"} /\ main.save_failed)
          => main.exit = <<1>>
    /\ (main.pc \in {"closing", "exited"} /\ "raised" \in {main.init, main.run})
          => main.exit = <<1>>
    /\ main.exit = <<0>> => (main.init = "ok" /\ main.run = "ok")

\* the backend stored the batch, but its answer did not reach the worker
C15_Witness ==
    /\ main.pc = "exited"
    /\ main.save_failed
    /\ main.exit = <<1>>
    /\ collection # <<>>

\* C16: main() calls pipeline.close() on every exit path, after a successful
\* run, after a failed initialize() and after a failed run(); close() raises
\* nothing, also on a pipeline whose initialize() failed and on a pipeline
\* that is closed already, and leaves the API client and the clients of the
\* retained fetchers closed.
Released ==
    /\ pl._api_client # 0 => ~http[pl._api_client].open
    /\ \A k \in 1..Len(pl._fetchers) : ~http[pl._fetchers[k]._client].open

C16_CloseAlways ==
    /\ main.exit # <<>> => main.pc \in {"closing", "exited"}
    /\ main.pc = "exited" =>
          /\ main.close = "ok"
          /\ main.exit \in {<<0>>, <<1>>}
          /\ log.closes = 1
          /\ Released
    /\ log.close # <<>> =>
          /\ log.close[1].exc = <<>>
          /\ Released

\* a pipeline whose initialize() failed at the backend probe is closed twice
C16_Witness ==
    /\ log.close # <<>>
    /\ log.closes = 2
    /\ ~log.close[1].ready
    /\ pl._api_client # 0
    /\ ~log.close[1].before[pl._api_client].open

\* main() exits with status 1 after initialize() failed in dry-run mode
C16_MainWitness ==
    /\ main.pc = "exited" /\ main.init = "raised" /\ main.exit = <<1>>
    /\ pl._dry_run
    /\ log.close # <<>>

\* C17: in dry-run mode initialize() and run() send nothing to the backend:
\* no API client is created, no backend health check and no save_batch
\* request is sent; the posts are still fetched and classified, and run()
\* returns created = analyzed and skipped = 0.
C17_DryRun ==
    pl._dry_run =>
        /\ pl._api_client = 0
        /\ \A j \in 1..Len(http) : http[j].owner # "api"
        /\ log.api_health = 0 /\ log.save = 0 /\ log.save_err = 0
        /\ req[Worker] = Idle
        /\ run.pc # "idle" => collection = run.coll
        /\ run.pc = "returned" =>
              /\ Len(run.fetched) = Len(pl._fetchers)
              /\ log.fetch = Len(pl._fetchers)
              /\ run.result.fetched = Len(run.all_posts)
              /\ run.result.analyzed = Len(run.all_posts)
              /\ run.all_posts # <<>> =>
                    /\ log.classify = 1
                    /\ Len(run.analysis_results) = Len(run.all_posts)
              /\ run.result.created = run.result.analyzed
              /\ run.result.skipped = 0

\* five posts, one of them stored already, are all counted as created
C17_Witness ==
    /\ pl._dry_run /\ run.pc = "returned"
    /\ run.result = PipelineResult(5, 5, 5, 0)
    /\ collection = <<Doc(1, CandTw1, 0)>>
(***************************************************************************)
(* Properties of the fetchers.                                             *)
(***************************************************************************)
\* C18: an HTTP error status, a network exception or a malformed response
\* never leaves fetch() as an exception: fetch() returns the posts it had
\* accumulated before the failure, possibly none.
C18_FetchNeverRaises ==
    (ft.pc = "done" /\ ft.op = "fetch" /\ ft.failure)
        => /\ ft.exc = <<>>
           /\ ft.ret = ft.posts

\* twitter.py line 119: wait_time = (2**attempt) * 5
RetryBase == 5

\* C19: a fetch answered with HTTP 429 is retried after waiting
\* base * 2^attempt, with at most 3 attempts in all, and returns a list
\* without raising once the attempts are used up.
C19_RateLimitRetry ==
    (ft.pc = "done" /\ ft.op = "fetch")
        => /\ Len(ft.responses) <= 3
           /\ ft.exc = <<>>
           /\ \A i \in 1..Len(ft.responses) :
                 ft.responses[i] = 429 =>
                    /\ ft.waits[i] > 0
                    /\ ft.name = "twitter" =>
                          ft.waits[i] = RetryBase * 2 ^ (i - 1)
                    /\ i < 3 => Len(ft.responses) > i

\* C20: health_check() of either fetcher raises nothing and leaves the
\* dataset alone; it answers True exactly when the probe was sent and
\* answered with status 200 or 429, and False on an exception, on any other
\* status and, for Twitter, without a token.
C20_HealthCheck ==
    (ft.pc = "done" /\ ft.op = "health_check")
        => /\ ft.exc = <<>>
           /\ collection = <<>> /\ req = [c \in Callers |-> Idle]
           /\ ft.responses = <<>> => ~ft.healthy
           /\ ft.responses # <<>> => (ft.healthy <=> ft.status \in {200, 429})

C20_Witness ==
    /\ ft.pc = "done" /\ ft.op = "health_check"
    /\ ft.name = "reddit"
    /\ ft.status = 429
    /\ ft.healthy

(***************************************************************************)
(* C21: the Twitter fetcher without a bearer token.                        *)
(***************************************************************************)
RedditPasses(status) == status \in {200, 429}

FetcherNames(p) == [k \in 1..Len(p._fetchers) |-> p._fetchers[k].name]

\* C21: with no bearer token TwitterFetcher.health_check returns False and
\* TwitterFetcher.fetch returns an empty list, both without sending a
\* request; initialize() then leaves the pipeline Ready with the Reddit
\* fetcher alone exactly when the Reddit health check was made and passed.
C21_NoToken ==
    /\ (ft.pc = "done" /\ ft.name = "twitter" /\ ~ft.token)
          => /\ ft.responses = <<>>
             /\ ft.exc = <<>>
             /\ ft.op = "health_check" => ~ft.healthy
             /\ ft.op = "fetch" => ft.ret = <<>>
    /\ (~pl.token /\ log.init # <<>> /\ ~log.init[1].ready)
          => /\ log.twitter_health = 0
             /\ pl._initialized
                   <=> (log.reddit_health = 1 /\ RedditPasses(log.init[1].rd))
             /\ pl._initialized => FetcherNames(pl) = <<"reddit">>

\* a token-less pipeline made Ready by Reddit alone although the Twitter
\* API would have answered 200, and a token-less fetch returned
C21_Witness ==
    /\ ~pl.token /\ log.init # <<>> /\ ~log.init[1].ready
    /\ log.init[1].tw = 200
    /\ pl._initialized /\ FetcherNames(pl) = <<"reddit">>
    /\ ft.pc = "done" /\ ft.op = "fetch" /\ ft.name = "twitter" /\ ~ft.token

(***************************************************************************)
(* C22: the texts of the posts fetch returns.                              *)
(***************************************************************************)
DeletedMarkers == {<<"[","d","e","l","e","t","e","d","]">>,
                   <<"[","r","e","m","o","v","e","d","]">>}

\* C22: every post returned by fetch of either fetcher has a text of at
\* least 10 characters that is not a deleted/removed marker.
C22_TextFiltered ==
    (ft.pc = "done" /\ ft.op = "fetch")
        => \A k \in 1..Len(ft.ret) :
              /\ Len(ft.ret[k].text) >= REDDIT_MIN_TEXT
              /\ ft.ret[k].text \notin DeletedMarkers

(***************************************************************************)
(* C23, C24: the list request.                                             *)
(***************************************************************************)
DoneList == q.pc = "done" /\ q.op = "list"

\* a filter field constrains when it is present, that is not None and, for
\* the strings, not empty
FieldPresent(opt) == opt # None /\ opt # Some("")

Satisfies(doc, filters) ==
    /\ FieldPresent(filters.sentiment) => doc.sentiment = filters.sentiment[1]
    /\ FieldPresent(filters.source) => doc.source = filters.source[1]
    /\ filters.date_from # None => filters.date_from[1] <= doc.created_at
    /\ filters.date_to # None => doc.created_at <= filters.date_to[1]

\* the stored records a filter selects
Filtered(coll, filters) ==
    {coll[k] : k \in {i \in 1..Len(coll) : Satisfies(coll[i], filters)}}

IsCeil(pages, total, limit) ==
    /\ pages * limit >= total
    /\ (pages - 1) * limit < total

\* C23, as stated: total_pages = ceil(total/limit) for total > 0 and 0 for
\* total = 0; for every page beyond total_pages the data is empty, and
\* meta.total is the number of stored records that match the filter.
C23_PagesAsStated ==
    DoneList =>
        LET meta == q.ret[1].meta
        IN  /\ meta.page >= 1 /\ meta.limit >= 1
            /\ meta.total > 0
                  => IsCeil(meta.total_pages, meta.total, meta.limit)
            /\ meta.total = 0 => meta.total_pages = 0
            /\ meta.page > meta.total_pages => q.ret[1].data = <<>>
            /\ meta.total = Cardinality(Filtered(q.after, q.args.filters))

\* what the code does keep: total_pages = ceil(total/limit) for total > 0 and
\* 0 for total = 0, meta.total being the number of matching records when
\* the request counted them; when no record was inserted between the count
\* and the find of the request, the data of every page beyond total_pages
\* is empty.
C23_Pages ==
    DoneList =>
        LET meta == q.ret[1].meta
        IN  /\ meta.page >= 1 /\ meta.limit >= 1
            /\ meta.total > 0
                  => IsCeil(meta.total_pages, meta.total, meta.limit)
            /\ meta.total = 0 => meta.total_pages = 0
            /\ meta.total = Cardinality(Filtered(q.before, q.args.filters))
            /\ (q.before = q.after /\ meta.page > meta.total_pages)
                  => q.ret[1].data = <<>>

\* a page beyond the last of two, the last one not full
C23_Witness ==
    /\ DoneList
    /\ q.before = q.after
    /\ q.ret[1].meta.total = 3 /\ q.ret[1].meta.limit = 2
    /\ q.ret[1].meta.total_pages = 2
    /\ q.ret[1].meta.page = 3
    /\ q.ret[1].data = <<>>

RECURSIVE Orderings(_)
Orderings(S) ==
    IF S = {} THEN {<<>>}
    ELSE UNION {{<<x>> \o rest : rest \in Orderings(S \ {x})} : x \in S}

Descending(docs) ==
    \A i, j \in 1..Len(docs) :
        i < j => docs[i].created_at >= docs[j].created_at

\* the positions (page-1)*limit .. page*limit-1, counted from 0, of a list
PagePositions(docs, page, limit) ==
    {k \in 1..Len(docs) : (page - 1) * limit < k /\ k <= page * limit}

\* C24: on a store that does not change during the call, get_paginated
\* returns the records at positions (page-1)*limit .. page*limit-1 of the
\* records that satisfy every present filter field (sentiment and source
\* equal, date_from <= created_at <= date_to, an absent field constraining
\* nothing), ordered by created_at descending, and a total equal to the
\* number of those records.
C24_Paginated ==
    (DoneList /\ q.before = q.after) =>
        LET selected == Filtered(q.after, q.args.filters)
            page     == q.args.page
            limit    == q.args.limit
            data     == q.ret[1].data
        IN  /\ q.total = Cardinality(selected)
            /\ \E docs \in Orderings(selected) :
                  /\ Descending(docs)
                  /\ LET at == PagePositions(docs, page, limit)
                     IN  /\ Len(data) = Cardinality(at)
                         /\ \A k \in 1..Len(data) :
                               LET doc == docs[(page - 1) * limit + k]
                               IN  /\ data[k].id = doc._id
                                   /\ data[k].created_at = doc.created_at
                                   /\ data[k].sentiment = doc.sentiment
                                   /\ data[k].source = doc.source
                                   /\ data[k].text = doc.text
                                   /\ data[k].score = doc.score

\* the second page of the records in an inclusive range whose bounds are
\* the created_at of the records it selects
C24_Witness ==
    /\ DoneList /\ q.before = q.after
    /\ q.args.filters.date_from = Some(T2) /\ q.args.filters.date_to = Some(T2)
    /\ q.args.page = 2
    /\ Len(q.ret[1].data) = 1
    /\ q.ret[1].data[1].created_at = T2
    /\ q.total = 3

(***************************************************************************)
(* C25: get_by_id.                                                         *)
(***************************************************************************)
DoneGetById == q.pc = "done" /\ q.op = "get_by_id"

HexChars == {"0", "1", "2", "3", "4", "5", "6", "7", "8", "9",
             "a", "b", "c", "d", "e", "f"}

WellFormed(id) == Len(id) = 24 /\ \A k \in 1..Len(id) : id[k] \in HexChars

\* the stored records whose id renders as the string
WithId(coll, id) == {k \in 1..Len(coll) : oid_str(coll[k]._id) = id}

\* C25: get_by_id fails with NotFoundError (NOT_FOUND, 404) for a
\* well-formed id that matches no stored record, with ValidationError
\* (VALIDATION_ERROR, 422) and without a store query for a malformed id, and
\* returns the record for the id of a stored record.
C25_GetById ==
    DoneGetById =>
        LET id    == q.args.sentiment_id
            found == WithId(q.before, id)
        IN  /\ (WellFormed(id) /\ found = {})
                  => /\ q.ret = <<>>
                     /\ q.exc = <<[code |-> "NOT_FOUND", status_code |-> 404]>>
            /\ ~WellFormed(id)
                  => /\ q.ret = <<>>
                     /\ q.exc = <<[code |-> "VALIDATION_ERROR",
                                   status_code |-> 422]>>
                     /\ q.queries = 0
            /\ found # {}
                  => /\ q.exc = <<>>
                     /\ \E k \in found :
                           /\ q.ret[1].data.id = q.before[k]._id
                           /\ q.ret[1].data.text = q.before[k].text
                           /\ q.ret[1].data.sentiment = q.before[k].sentiment
                           /\ q.ret[1].data.score = q.before[k].score
                           /\ q.ret[1].data.source = q.before[k].source
                           /\ q.ret[1].data.created_at = q.before[k].created_at

\* an id of 24 characters that are not hexadecimal digits, asked of a store
\* that holds records
C25_Witness ==
    /\ DoneGetById
    /\ Len(q.args.sentiment_id) = 24
    /\ ~WellFormed(q.args.sentiment_id)
    /\ q.exc = <<ValidationError>>
    /\ q.queries = 0
    /\ q.before # <<>>

(***************************************************************************)
(* C26: the summary.                                                       *)
(***************************************************************************)
DoneSummary == q.pc = "done" /\ q.op = "get_summary"

Abs(n) == IF n < 0 THEN -n ELSE n

\* p hundredths of a percent is count/total*100 rounded to two decimals
IsRounded(p, count, total) == 2 * Abs(p * total - count * 10000) <= total

\* C26: get_summary returns total_count = the number of stored records and
\* per-label counts that add up to it; for total_count > 0 each percentage
\* is round(count/total*100, 2) and the three sum to 100 within rounding
\* (0.01); for an empty store every count, every percentage and
\* average_score are 0 and nothing is raised.
C26_Summary ==
    DoneSummary =>
        LET s == q.ret[1].data
        IN  /\ q.exc = <<>>
            /\ s.total_count = Len(q.before)
            /\ s.positive_count + s.negative_count + s.neutral_count
                  = s.total_count
            /\ s.total_count > 0
                  => /\ IsRounded(s.positive_percentage, s.positive_count,
                                  s.total_count)
                     /\ IsRounded(s.negative_percentage, s.negative_count,
                                  s.total_count)
                     /\ IsRounded(s.neutral_percentage, s.neutral_count,
                                  s.total_count)
                     /\ Abs(s.positive_percentage + s.negative_percentage
                            + s.neutral_percentage - 10000) <= 1
            /\ q.before = <<>>
                  => /\ s.total_count = 0
                     /\ s.positive_count = 0 /\ s.negative_count = 0
                     /\ s.neutral_count = 0
                     /\ s.positive_percentage = 0
                     /\ s.negative_percentage = 0
                     /\ s.neutral_percentage = 0
                     /\ s.average_score = 0

\* two records of one label and one of another: 66.67 and 33.33
C26_Witness ==
    /\ DoneSummary
    /\ q.ret[1].data.total_count = 3
    /\ q.ret[1].data.positive_count = 2
    /\ q.ret[1].data.positive_percentage = 6667
    /\ q.ret[1].data.neutral_percentage = 3333

(***************************************************************************)
(* C27, C28: the timeline.                                                 *)
(***************************************************************************)
DoneTimeline == q.pc = "done" /\ q.op = "get_timeline"

\* the stored records whose created_at lies in the inclusive range of the
\* request
InRange(coll, date_from, date_to) ==
    {k \in 1..Len(coll) :
        /\ date_from # None => date_from[1] <= coll[k].created_at
        /\ date_to # None => coll[k].created_at <= date_to[1]}

BucketKey(doc) == date_to_string(q.args.granularity, doc.created_at)

\* C27: get_timeline returns one point per distinct bucket key among the
\* records in the inclusive [date_from, date_to] range, none missing, none
\* repeated and none empty, sorted ascending by key, with total = positive +
\* negative + neutral = the number of in-range records of that key.
C27_Timeline ==
    DoneTimeline =>
        LET points == q.ret[1].data
            docs   == q.before
            inside == InRange(docs, q.args.date_from, q.args.date_to)
            Of(key, label) ==
                Cardinality({k \in inside : /\ BucketKey(docs[k]) = key
                                            /\ docs[k].sentiment = label})
        IN  /\ {points[k].date : k \in 1..Len(points)}
                  = {BucketKey(docs[k]) : k \in inside}
            /\ \A i, j \in 1..Len(points) :
                  i < j => KeyLess(points[i].date, points[j].date)
            /\ \A k \in 1..Len(points) :
                  /\ points[k].total > 0
                  /\ points[k].total = points[k].positive
                        + points[k].negative + points[k].neutral
                  /\ points[k].positive = Of(points[k].date, "positive")
                  /\ points[k].negative = Of(points[k].date, "negative")
                  /\ points[k].neutral = Of(points[k].date, "neutral")

\* a range that ends on the created_at of a record and leaves a later
\* record out: one point for the two records of one day
C27_Witness ==
    /\ DoneTimeline
    /\ q.args.date_from = None /\ q.args.date_to = Some(T2)
    /\ q.args.granularity = "day"
    /\ Len(q.before) = 3 /\ q.before[3].created_at = T3
    /\ Len(q.ret[1].data) = 1
    /\ q.ret[1].data[1].total = 2

\* the period a datetime falls in: the hour, the day, the week from its
\* Monday, the month
Period(granularity, t) ==
    IF granularity = "hour" THEN t
    ELSE IF granularity = "week"
         THEN DayOf(t) - (isoweekday(DayOf(t)) - 1)
    ELSE IF granularity = "month"
         THEN civil_from_days(DayOf(t)).year * 12
                 + civil_from_days(DayOf(t)).month
    ELSE DayOf(t)

KeysChronological ==
    \A i, j \in 1..Len(q.before) :
        LET a == q.before[i]
            b == q.before[j]
            g == q.args.granularity
        IN  /\ BucketKey(a) = BucketKey(b)
                  => Period(g, a.created_at) = Period(g, b.created_at)
            /\ KeyLess(BucketKey(a), BucketKey(b))
                  => Period(g, a.created_at) < Period(g, b.created_at)

\* C28: for every granularity the ascending order of the bucket keys is
\* the order of the periods in time, and two records share a key only if
\* their created_at fall in the same period, the weeks around a year
\* boundary included.
C28_KeysChronological == DoneTimeline => KeysChronological

\* the same for the granularities hour, day and month alone
KeysChronologicalExceptWeek ==
    (DoneTimeline /\ q.args.granularity # "week") => KeysChronological

(***************************************************************************)
(* C29: stored records are immutable and never deleted.                    *)
(***************************************************************************)
\* what every step does to the collection: the stored records stay, in
\* place and unchanged
OnlyAdds ==
    /\ Len(collection') >= Len(collection)
    /\ \A k \in 1..Len(collection) : collection'[k] = collection[k]

\* C29: create and create_batch only add records and change no field of a
\* stored record; get_paginated, get_by_id, get_summary and get_timeline
\* leave the collection unchanged.
C29_Immutable ==
    [][/\ OnlyAdds
       /\ q' # q => collection' = collection]_vars

\* records added by create and by create_batch at different times, and a
\* read request answered from them
C29_Witness ==
    /\ Len(collection) = 3
    /\ collection[1].created_at < collection[3].created_at
    /\ req["c1"].pc = "idle"
    /\ collection[2].created_at = collection[3].created_at
    /\ collection[2].sentiment = "neutral" /\ collection[3].sentiment = "neutral"
    /\ q.pc = "done" /\ q.op = "list" /\ q.before = collection
    /\ Len(q.ret[1].data) = 2

(***************************************************************************)
(* C30: candidates of one batch that share a pair.                         *)
(***************************************************************************)
\* the documents the finished call of c appended, no other call running
Appended(c) == SubSeq(collection, req[c].insertLen + 1, req[c].afterLen)

\* C30: create_batch checks a source_id-bearing candidate against the
\* records stored before the call only: of k >= 2 candidates of one batch
\* with the same not-yet-stored (source, source_id) all k are inserted and
\* all k are counted in created_count.
C30_IntraBatch ==
    \A c \in Clients :
        DoneBatch(c) =>
            /\ req[c].created_count = Len(Appended(c))
            /\ \A r \in FullPool :
                  LET k == Count(req[c].records, LAMBDA x : Key(x) = Key(r))
                  IN  (/\ r.source_id # None /\ r.source_id # Some("")
                       /\ ~Stored(req[c].before, r)
                       /\ k >= 2)
                      => Count(Appended(c), LAMBDA doc : Key(doc) = Key(r)) = k

\* a batch of two candidates with one pair, sent to an empty store: two
\* records with that pair are stored
C30_Witness ==
    /\ DoneBatch("c1")
    /\ req["c1"].before = <<>>
    /\ req["c1"].records = <<CandTw1, CandTw1>>
    /\ req["c1"].created_count = 2 /\ req["c1"].skipped_count = 0
    /\ Len(collection) = 2
    /\ Key(collection[1]) = Key(collection[2])

(***************************************************************************)
(* C31: create.                                                            *)
(***************************************************************************)
DoneCreate(c) == req[c].pc = "done" /\ req[c].op = "create"

\* C31: create(candidate) adds exactly one record, with an id no stored
\* record has and the created_at of the moment of insertion, whether or not
\* a record with the same (source, source_id) is stored.
C31_CreateAlwaysInserts ==
    DoneCreate("c1") =>
        LET before == req["c1"].before
            data   == req["c1"].records[1]
        IN  /\ Len(collection) = Len(before) + 1
            /\ SubSeq(collection, 1, Len(before)) = before
            /\ LET doc == collection[Len(collection)]
               IN  /\ \A k \in 1..Len(before) : before[k]._id # doc._id
                   /\ doc.created_at = now
                   /\ SameFields(doc, data)
                   /\ req["c1"].ret[1].id = doc._id
                   /\ req["c1"].ret[1].created_at = doc.created_at

\* a candidate whose pair was stored at an earlier time is stored again
C31_Witness ==
    /\ DoneCreate("c1")
    /\ req["c1"].records[1].source_id = Some("1")
    /\ Stored(req["c1"].before, req["c1"].records[1])
    /\ req["c1"].before[1].created_at < now
    /\ Len(collection) = Len(req["c1"].before) + 1

(***************************************************************************)
(* One run of main() on a busy keyword.                                    *)
(***************************************************************************)
\* SentimentBatchCreate.records: max_length
MAX_BATCH_SIZE == 100

\* args.limit: half a page or the default of a full page
BulkLimits == {50, 100}

\* how many posts a source answers with
BulkSizes == {0, 1, 50, 100}

BulkPages ==
    {SubSeq(BulkFeed(name), 1, n) :
        name \in {"twitter", "reddit"}, n \in BulkSizes}

\* main() has built a pipeline that saves, with a bearer token configured
InitBulk ==
    /\ collection = <<>>
    /\ now = 0 /\ req = [c \in Callers |-> Idle]
    /\ classifier = PipelineModel
    /\ an = NoCalls
    /\ pl = NewPipeline(FALSE, TRUE)
    /\ http = <<>>
    /\ run = RunIdle
    /\ log = NoLog
    /\ main = MainStart
    /\ ft = FetchIdle
    /\ q = QueryIdle

NextBulk ==
    \/ \E tw \in TwitterAnswers, rd \in RedditAnswers :
          MainInitialize(200, tw, rd)
    \/ \E limit \in BulkLimits, tw \in TwitterAnswers, rd \in RedditAnswers :
          MainRun(limit, 200, tw, rd)
    \/ MainResult
    \/ MainClose
    \/ \E posts \in BulkPages : RunFetch(posts)
    \/ RunFetchRaises
    \/ RunNoPosts
    \/ RunClassifyRaises
    \/ \E delivered \in BOOLEAN : RunClassify(delivered)
    \/ RunSaved
    \/ RunSaveFails
    \/ BatchFindOne(Worker)
    \/ BatchInsert(Worker)
    \/ run.pc # "saving" /\ Return(Worker)

SpecBulk == InitBulk /\ [][NextBulk]_vars

(***************************************************************************)
(* C32                                                                     *)
(***************************************************************************)
\* the records of the request that save_batch has sent in this run
Submitted == save_batch_records(run.all_posts, run.analysis_results)

\* C32: every batch that run() submits through save_batch holds at most 100
\* records, whatever the limit and whichever fetchers were retained, so the
\* boundary never answers a run's batch with a rejection for its size.
C32_BatchSize ==
    (log.save > 0 /\ run.pc # "idle")
        => /\ Len(Submitted) <= MAX_BATCH_SIZE
           /\ run.exc # <<"HTTP 422">>

\* a batch within the maximum is stored whole
C32_WithinMaximum ==
    (log.save > 0 /\ run.pc = "returned" /\ Len(Submitted) <= MAX_BATCH_SIZE)
        => run.result.created + run.result.skipped = Len(Submitted)

(***************************************************************************)
(* C33                                                                     *)
(***************************************************************************)
\* a write committed between the count and the find of the request
WriteBetween == DoneList /\ q.before # q.after

\* C33: when a create or create_batch commits between the count query and
\* the find query of one get_paginated call, the response is consistent with
\* a single store state: no more records are returned than the returned
\* total, and data is non-empty only if total > 0, so total_pages > 0.
C33_SingleState ==
    WriteBetween =>
        LET meta == q.ret[1].meta
            data == q.ret[1].data
        IN  /\ Len(data) <= meta.total
            /\ data # <<>> => (meta.total > 0 /\ meta.total_pages > 0)

(***************************************************************************)
(* C34                                                                     *)
(***************************************************************************)
\* the responses of a walk through the pages 1..total_pages, the last one
\* included
Walk ==
    Append(q.pages, [data |-> q.ret[1].data,
                     total_pages |-> q.ret[1].meta.total_pages,
                     before |-> q.before, after |-> q.after])

\* the walk is complete, and every one of its requests saw the same store
WalkDoneOnOneStore ==
    /\ DoneList
    /\ Len(q.pages) = q.args.page - 1
    /\ q.args.page = q.ret[1].meta.total_pages
    /\ \A k \in 1..Len(Walk) :
          Walk[k].before = q.after /\ Walk[k].after = q.after

PageIds(data) == {data[k].id : k \in 1..Len(data)}

\* C34: on a store that is not modified between the requests, the pages
\* 1..total_pages asked for with the same limit and filter hold every
\* matching record exactly once: the pages are pairwise disjoint and their
\* union is the filtered set, also when several records share a created_at
\* because one create_batch call inserted them.
C34_PagesPartition ==
    WalkDoneOnOneStore =>
        /\ \A i, j \in 1..Len(Walk) :
              i # j => PageIds(Walk[i].data) \cap PageIds(Walk[j].data) = {}
        /\ UNION {PageIds(Walk[k].data) : k \in 1..Len(Walk)}
              = {doc._id : doc \in Filtered(q.after, q.args.filters)}

\* with distinct created_at the walk is a partition
C34_DistinctTimes ==
    (/\ WalkDoneOnOneStore
     /\ \A i, j \in 1..Len(q.after) :
           i # j => q.after[i].created_at # q.after[j].created_at)
        => /\ \A i, j \in 1..Len(Walk) :
                 i # j => PageIds(Walk[i].data) \cap PageIds(Walk[j].data) = {}
           /\ UNION {PageIds(Walk[k].data) : k \in 1..Len(Walk)}
                 = {doc._id : doc \in Filtered(q.after, q.args.filters)}

(***************************************************************************)
(* C35                                                                     *)
(***************************************************************************)
TwitterFetch == ft.op = "fetch" /\ ft.name = "twitter"

\* C35: TwitterFetcher.fetch ends after at most 3 HTTP requests: a 429 is
\* followed by a wait of 5, 10 and 20 seconds for the first, second and
\* third response, the third included, and three of them return an empty
\* list; an HTTP error status is followed by a wait of 1 and 2 seconds and
\* by none after the third; any other exception ends the loop at once, and
\* so does a successful response.
C35_TwitterFetchBounded ==
    TwitterFetch =>
        /\ Len(ft.responses) <= 3
        /\ Len(ft.waits) = Len(ft.responses)
        /\ Len(ft.responses) = 3 => ft.pc = "done"
        /\ ft.pc = "done" => ft.exc = <<>>
        /\ \A i \in 1..Len(ft.responses) :
              LET st == ft.responses[i]
              IN  /\ st = 429 => ft.waits[i] = <<5, 10, 20>>[i]
                  /\ (st >= 400 /\ st # 429) => ft.waits[i] = <<1, 2, 0>>[i]
                  /\ st < 400 => /\ ft.waits[i] = 0
                                 /\ i = Len(ft.responses)
                                 /\ ft.pc = "done"
        /\ (ft.pc = "done" /\ ft.responses = <<429, 429, 429>>)
              => ft.ret = <<>>

\* three answers of 429, each waited for
C35_Witness ==
    /\ TwitterFetch /\ ft.pc = "done"
    /\ ft.responses = <<429, 429, 429>>
    /\ ft.waits = <<5, 10, 20>>
    /\ ft.ret = <<>>

(***************************************************************************)
(* C36                                                                     *)
(***************************************************************************)
\* C36: after Pipeline.close() has returned, every HTTP client that the
\* pipeline opened during initialize() is closed, the client of a fetcher
\* whose health check sent a request and failed, so that the fetcher was not
\* retained, included.
C36_AllClientsClosed ==
    log.close # <<>> => \A j \in 1..Len(http) : ~http[j].open

(***************************************************************************)
(* The worker's APIClient, used by run() and by other callers.             *)
(***************************************************************************)
\* post lists and result lists a caller may hand to save_batch
SavePosts == {<<>>, <<PostT1>>, <<PostT1, PostR1>>}

SaveResults ==
    {<<>>, <<AnalysisResult("positive", 95)>>,
     <<AnalysisResult("neutral", 55), AnalysisResult("positive", 95)>>}

\* what the sources answer a run with
SaveFeeds == {<<>>, <<PostT1, PostT2>>, <<PostR1>>}

\* a pipeline that saves, with a bearer token configured, on an empty store
InitSave ==
    /\ collection = <<>>
    /\ now = 0 /\ req = [c \in Callers |-> Idle]
    /\ classifier = PipelineModel
    /\ an = NoCalls
    /\ pl = NewPipeline(FALSE, TRUE)
    /\ http = <<>>
    /\ run = RunIdle
    /\ log = NoLog
    /\ main = MainOff
    /\ ft = FetchIdle
    /\ q = QueryIdle

NextSave ==
    \/ \E tw \in TwitterAnswers, rd \in RedditAnswers :
          /\ log.calls + log.closes < MaxCalls
          /\ RunBegin(100, 200, tw, rd)
          /\ UNCHANGED main
    \/ \E posts \in SaveFeeds : RunFetch(posts)
    \/ RunFetchRaises
    \/ RunNoPosts
    \/ RunClassifyRaises
    \/ \E delivered \in BOOLEAN : RunClassify(delivered)
    \/ RunSaved
    \/ RunSaveFails
    \/ RunReturn /\ UNCHANGED main
    \/ log.calls + log.closes < MaxCalls /\ PipelineClose /\ UNCHANGED main
    \/ \E posts \in SavePosts, results \in SaveResults, delivered \in BOOLEAN :
          SaveBatchCall(posts, results, delivered)
    \/ BatchFindOne(Worker)
    \/ BatchInsert(Worker) /\ Len(collection') <= MaxPipe
    \/ run.pc # "saving" /\ Return(Worker)

SpecSave == InitSave /\ [][NextSave]_vars

(***************************************************************************)
(* C37                                                                     *)
(***************************************************************************)
\* record k pairs post k with the result the classifier gives for its text
PairedWithOwn(records, posts) ==
    /\ Len(records) = Len(posts)
    /\ \A k \in 1..Len(posts) :
          /\ records[k].text = posts[k].text
          /\ records[k].source = posts[k].source
          /\ records[k].source_id = Some(posts[k].source_id)
          /\ records[k].sentiment = analyze(posts[k].text).label
          /\ records[k].score = analyze(posts[k].text).score

\* C37: every record that run() submits through save_batch pairs the text,
\* source and source_id of post i with the label and score the classifier
\* produced for that post's own text; save_batch raises ValueError and sends
\* no request when the post list and the result list differ in length.
C37_PositionalPairing ==
    /\ run.pc = "saving" => PairedWithOwn(req[Worker].records, run.all_posts)
    /\ log.save_call # <<>> =>
          LET call == log.save_call[1]
          IN  /\ Len(call.posts) # Len(call.results) =>
                    /\ call.exc =
                          <<"Posts and results must have the same length">>
                    /\ ~call.sent /\ call.records = <<>>
                    /\ log.save = 0
                    /\ req[Worker].pc = "idle"
              /\ call.sent =>
                    /\ Len(call.records) = Len(call.posts)
                    /\ \A k \in 1..Len(call.records) :
                          /\ call.records[k].text = call.posts[k].text
                          /\ call.records[k].source = call.posts[k].source
                          /\ call.records[k].source_id
                                = Some(call.posts[k].source_id)
                          /\ call.records[k].sentiment = call.results[k].label
                          /\ call.records[k].score = call.results[k].score

\* run() submits a Twitter post and a Reddit post whose results differ
C37_Witness ==
    /\ run.pc = "saving"
    /\ Len(run.all_posts) >= 2
    /\ run.all_posts[1].source = "twitter"
    /\ run.all_posts[Len(run.all_posts)].source = "reddit"
    /\ req[Worker].records[1].sentiment = "positive"
    /\ req[Worker].records[Len(run.all_posts)].sentiment = "neutral"

\* two posts handed to save_batch with one result
C37_MismatchWitness ==
    /\ log.save_call # <<>>
    /\ Len(log.save_call[1].posts) = 2
    /\ Len(log.save_call[1].results) = 1
    /\ log.save_call[1].exc # <<>>

(***************************************************************************)
(* C38                                                                     *)
(***************************************************************************)
\* the client that created a record has looked it up by the id it was given
LookedUpCreated ==
    /\ DoneCreate("c1")
    /\ DoneGetById
    /\ q.args.sentiment_id = oid_str(req["c1"].ret[1].id)

\* C38: for every valid candidate c, get_by_id(create(c).id) returns a
\* record equal to the one create returned, and that record carries c's
\* text, sentiment, score, source and source_id together with the id and the
\* created_at assigned at insertion.
C38_RoundTrip ==
    LookedUpCreated =>
        LET c       == req["c1"].records[1]
            created == req["c1"].ret[1]
            stored  == collection[req["c1"].afterLen]
        IN  /\ q.exc = <<>>
            /\ q.ret[1].data = created
            /\ created.text = c.text
            /\ created.sentiment = c.sentiment
            /\ created.score = c.score
            /\ created.source = c.source
            /\ created.id = stored._id
            /\ created.created_at = stored.created_at
            /\ "source_id" \in DOMAIN created
            /\ created.source_id = c.source_id

\* what the round trip does keep: the two records are equal and carry the
\* candidate's text, sentiment, score and source, the id and the created_at
C38_KeptFields ==
    LookedUpCreated =>
        LET c       == req["c1"].records[1]
            created == req["c1"].ret[1]
            stored  == collection[req["c1"].afterLen]
        IN  /\ q.exc = <<>>
            /\ q.ret[1].data = created
            /\ created.text = c.text
            /\ created.sentiment = c.sentiment
            /\ created.score = c.score
            /\ created.source = c.source
            /\ created.id = stored._id
            /\ created.created_at = stored.created_at
====
